---- MODULE Spec2Model ----
(***************************************************************************)
(* Model of the validate-bom serverless function                            *)
(* (supabase/functions/validate-bom/index.ts): the terminology map builder, *)
(* the BOM entry validator, the quality scorer and the request handler with *)
(* its database and storage effects.                                        *)
(*                                                                          *)
(* JavaScript strings are modelled as sequences of one-character strings,   *)
(* so that toLowerCase, split, trim and join are computed, not assumed.     *)
(* A JavaScript object is the sequence of its <<key, value>> entries in     *)
(* insertion order (the order Object.entries and Object.keys return).       *)
(***************************************************************************)
EXTENDS Integers, Sequences, FiniteSets, TLC

VARIABLES
  mode,        \* which harness drives the run: "score", "dict", "validate" or "handler"
  arg,         \* inputs of the pure function under check
  ret,         \* its result (NoRet until it has been applied)
  pc,                 \* per invocation: the await it is suspended at
  request,            \* per invocation: the request it serves
  bodyUsed,           \* per invocation: whether the request body has been read
  local,              \* per invocation: checkId, check, bomEntries, ... of the try block
  response,           \* per invocation: the Response returned
  calls,              \* per invocation: the database and storage requests issued
  bom_checks,         \* table bom_checks, by id
  validation_issues,  \* table validation_issues
  bom_items,          \* table bom_items
  bom_corrections,    \* table bom_corrections
  reference_files,    \* table reference_files
  bom_uploads,        \* bucket bom-uploads, by path
  corrected_files,    \* bucket corrected-files, by name
  clock,              \* the last value Date.now() returned
  faults              \* failures of the backing store injected so far

\* ------------------------------------------------------------------------
\* String primitives
\* ------------------------------------------------------------------------

\* String.prototype.toLowerCase, one character
LowerChar(c) ==
  CASE c = "A" -> "a"
    [] c = "B" -> "b"
    [] c = "C" -> "c"
    [] c = "D" -> "d"
    [] c = "E" -> "e"
    [] c = "F" -> "f"
    [] c = "G" -> "g"
    [] c = "H" -> "h"
    [] c = "I" -> "i"
    [] c = "J" -> "j"
    [] c = "K" -> "k"
    [] c = "L" -> "l"
    [] c = "M" -> "m"
    [] c = "N" -> "n"
    [] c = "O" -> "o"
    [] c = "P" -> "p"
    [] c = "Q" -> "q"
    [] c = "R" -> "r"
    [] c = "S" -> "s"
    [] c = "T" -> "t"
    [] c = "U" -> "u"
    [] c = "V" -> "v"
    [] c = "W" -> "w"
    [] c = "X" -> "x"
    [] c = "Y" -> "y"
    [] c = "Z" -> "z"
    [] OTHER -> c

toLowerCase(s) == [i \in 1..Len(s) |-> LowerChar(s[i])]

\* the characters matched by \s that can occur in the modelled inputs
IsSpace(c) == c \in {" ", "\t", "\r", "\n"}

RECURSIVE SkipSpaces(_, _)
SkipSpaces(s, i) ==
  IF i <= Len(s) /\ IsSpace(s[i]) THEN SkipSpaces(s, i + 1) ELSE i

\* value.split(/\s+/): every maximal run of whitespace is one separator;
\* leading or trailing whitespace yields an empty first or last piece
RECURSIVE SplitWsFrom(_, _, _)
SplitWsFrom(s, i, cur) ==
  IF i > Len(s) THEN << cur >>
  ELSE IF IsSpace(s[i]) THEN << cur >> \o SplitWsFrom(s, SkipSpaces(s, i), << >>)
  ELSE SplitWsFrom(s, i + 1, Append(cur, s[i]))

SplitWs(s) == SplitWsFrom(s, 1, << >>)

\* s.split(ch) for a one-character separator
SplitOn(s, ch) ==
  LET seps == { i \in 1..Len(s) : s[i] = ch }
      n == Cardinality(seps)
      \* index of the k-th separator; 0 and Len(s) + 1 stand for the two ends
      At(k) == IF k = 0 THEN 0
               ELSE IF k > n THEN Len(s) + 1
               ELSE CHOOSE i \in seps : Cardinality({ j \in seps : j < i }) = k - 1
  IN  [k \in 1..(n + 1) |-> SubSeq(s, At(k - 1) + 1, At(k) - 1)]

RECURSIVE TrimEnd(_)
TrimEnd(s) ==
  IF Len(s) > 0 /\ IsSpace(s[Len(s)]) THEN TrimEnd(SubSeq(s, 1, Len(s) - 1)) ELSE s

\* String.prototype.trim
trim(s) == TrimEnd(SubSeq(s, SkipSpaces(s, 1), Len(s)))

\* Array.prototype.join
RECURSIVE Join(_, _)
Join(parts, sep) ==
  IF Len(parts) = 0 THEN << >>
  ELSE IF Len(parts) = 1 THEN parts[1]
  ELSE parts[1] \o sep \o Join(Tail(parts), sep)

\* ------------------------------------------------------------------------
\* Objects (entry sequences) and Maps (functions)
\* ------------------------------------------------------------------------

Keys(o) == [i \in 1..Len(o) |-> o[i][1]]

HasKey(o, k) == \E i \in 1..Len(o) : o[i][1] = k

\* o[k] for an own property; the empty string stands for a missing value
\* only where the caller has tested HasKey first or applies `|| ''`
Get(o, k) ==
  IF HasKey(o, k) THEN o[CHOOSE i \in 1..Len(o) : o[i][1] = k][2] ELSE << >>

\* o[k] = v: an existing key keeps its position, a new key is appended
Put(o, k, v) ==
  IF HasKey(o, k)
    THEN [i \in 1..Len(o) |-> IF o[i][1] = k THEN << k, v >> ELSE o[i]]
    ELSE Append(o, << k, v >>)

EmptyMap == [k \in {} |-> << >>]

\* mutant: set() that never overwrites an existing key
MapSetKeepExisting(m, k, v) ==
  [x \in (DOMAIN m) \cup {k} |-> IF x \in DOMAIN m THEN m[x] ELSE v]

\* Map.prototype.set
MapSet(m, k, v) == [x \in (DOMAIN m) \cup {k} |-> IF x = k THEN v ELSE m[x]]

\* Map.prototype.has
MapHas(m, k) == k \in DOMAIN m

\* ------------------------------------------------------------------------
\* String literals of the source
\* ------------------------------------------------------------------------

S_material == <<"m","a","t","e","r","i","a","l">>
S_Unknown == <<"U","n","k","n","o","w","n">>
S_Required == <<"[","R","e","q","u","i","r","e","d","]">>
S_FunctionObject == <<"f","u","n","c","t","i","o","n"," ","O","b","j","e","c","t","(",")"," ","{"," ","[","n","a","t","i","v","e"," ","c","o","d","e","]"," ","}">>
S_ObjectObject == <<"[","o","b","j","e","c","t"," ","O","b","j","e","c","t","]">>
S_constructor == <<"c","o","n","s","t","r","u","c","t","o","r">>
S_proto == <<"_","_","p","r","o","t","o","_","_">>
S_Blad3 == <<"B","l","a","d","3">>
S_grbx == <<"g","r","b","x">>
S_Gearbox == <<"G","e","a","r","b","o","x">>
S_gearbox == <<"g","e","a","r","b","o","x">>
S_teh == <<"t","e","h">>
S_Teh == <<"T","e","h">>
S_bolt == <<"b","o","l","t">>
S_THE == <<"T","H","E">>
S_P1 == <<"P","1">>
S_3 == <<"3">>
S_x == <<"x">>
F_partNumber == <<"p","a","r","t","N","u","m","b","e","r">>
F_partName == <<"p","a","r","t","N","a","m","e">>
F_description == <<"d","e","s","c","r","i","p","t","i","o","n">>
F_quantity == <<"q","u","a","n","t","i","t","y">>
S_Grbx == <<"G","r","b","x">>

commonTerms ==
  << <<<<"B","l","a","d">>, <<"B","l","a","d","e">>>>,
     <<<<"B","l","a","d","3">>, <<"B","l","a","d","e"," ","3">>>>,
     <<<<"b","l","d","e">>, <<"b","l","a","d","e">>>>,
     <<<<"H","u","b","m">>, <<"H","u","b">>>>,
     <<<<"N","a","c","e","l","e">>, <<"N","a","c","e","l","l","e">>>>,
     <<<<"n","a","c","e","l","l">>, <<"n","a","c","e","l","l","e">>>>,
     <<<<"G","e","a","r","b","o","x">>, <<"G","e","a","r","b","o","x">>>>,
     <<<<"g","r","b","x">>, <<"g","e","a","r","b","o","x">>>>,
     <<<<"G","e","n","e","r","a","t","o","r">>, <<"G","e","n","e","r","a","t","o","r">>>>,
     <<<<"g","e","n","r","t","r">>, <<"g","e","n","e","r","a","t","o","r">>>>,
     <<<<"R","o","t","o","r">>, <<"R","o","t","o","r">>>>,
     <<<<"r","o","t","r">>, <<"r","o","t","o","r">>>>,
     <<<<"T","o","w","e","r">>, <<"T","o","w","e","r">>>>,
     <<<<"t","o","w","r">>, <<"t","o","w","e","r">>>>,
     <<<<"F","o","u","n","d","a","t","i","o","n">>, <<"F","o","u","n","d","a","t","i","o","n">>>>,
     <<<<"f","o","u","n","d","t","n">>, <<"f","o","u","n","d","a","t","i","o","n">>>>,
     <<<<"S","t","a","t","o","r">>, <<"S","t","a","t","o","r">>>>,
     <<<<"B","e","a","r","i","n","g">>, <<"B","e","a","r","i","n","g">>>>,
     <<<<"b","r","n","g">>, <<"b","e","a","r","i","n","g">>>> >>

spellingRules ==
  << <<<<"t","e","h">>, <<"t","h","e">>>>,
     <<<<"a","d","n">>, <<"a","n","d">>>>,
     <<<<"w","i","e","g","h","t">>, <<"w","e","i","g","h","t">>>>,
     <<<<"l","e","n","g","h","t">>, <<"l","e","n","g","t","h">>>>,
     <<<<"w","i","d","h","t">>, <<"w","i","d","t","h">>>>,
     <<<<"h","i","e","g","h","t">>, <<"h","e","i","g","h","t">>>>,
     <<<<"d","i","a","m","t","e","r">>, <<"d","i","a","m","e","t","e","r">>>>,
     <<<<"m","a","t","e","r","a","i","l">>, <<"m","a","t","e","r","i","a","l">>>>,
     <<<<"a","l","u","m","i","n","i","u","m">>, <<"a","l","u","m","i","n","u","m">>>> >>

requiredFields ==
  << <<"p","a","r","t","N","u","m","b","e","r">>, <<"p","a","r","t","N","a","m","e">>, <<"d","e","s","c","r","i","p","t","i","o","n">>, <<"q","u","a","n","t","i","t","y">> >>

\* ------------------------------------------------------------------------
\* buildTerminologyDict
\* ------------------------------------------------------------------------

\* A reference_files row is [type, parsed_content]; parsed_content is
\* [kind |-> "null" | "object" | "array", items |-> <<[incorrect, correct], ...>>].

\* the first loop: dict.set(wrong.toLowerCase(), correct) for each pair
RECURSIVE SetCommonTerms(_, _)
SetCommonTerms(dict, terms) ==
  IF Len(terms) = 0 THEN dict
  ELSE SetCommonTerms(MapSet(dict, toLowerCase(terms[1][1]), terms[1][2]), Tail(terms))

\* the innermost loop over the items of one dictionary file
RECURSIVE SetItems(_, _)
SetItems(dict, items) ==
  IF Len(items) = 0 THEN dict
  ELSE LET item == items[1]
       IN  SetItems(IF item.incorrect # << >> /\ item.correct # << >>
                      THEN MapSet(dict, toLowerCase(item.incorrect), item.correct)
                      ELSE dict,
                    Tail(items))

\* the test that lets one reference file contribute its items
FileContributes(file) ==
  /\ file.type = "dictionary"
  /\ file.parsed_content.kind # "null"
  /\ file.parsed_content.kind = "array"

RECURSIVE SetFiles(_, _)
SetFiles(dict, files) ==
  IF Len(files) = 0 THEN dict
  ELSE SetFiles(IF FileContributes(files[1])
                  THEN SetItems(dict, files[1].parsed_content.items)
                  ELSE dict,
                Tail(files))

\* the map after the loop over commonTerms
CommonTermsDict == SetCommonTerms(EmptyMap, commonTerms)

buildTerminologyDict(referenceFiles) == SetFiles(CommonTermsDict, referenceFiles)

\* ------------------------------------------------------------------------
\* checkSpelling
\* ------------------------------------------------------------------------

\* Properties every object literal inherits from Object.prototype, with the
\* string conversion of their (truthy) values.  spellingRules is a plain
\* object literal, so spellingRules[lowerWord] finds these as well.
ObjectPrototype ==
  << << S_constructor, S_FunctionObject >>,
     << S_proto, S_ObjectObject >> >>

\* spellingRules[lowerWord]: own property first, then the prototype chain;
\* << >> stands for undefined
PropertyLookup(key) ==
  IF HasKey(spellingRules, key) THEN << Get(spellingRules, key) >>
  ELSE IF HasKey(ObjectPrototype, key) THEN << Get(ObjectPrototype, key) >>
  ELSE << >>

\* returns << >> for null and << suggestion >> for { suggestion }
checkSpelling(word) ==
  LET lowerWord == toLowerCase(word)
      found == PropertyLookup(lowerWord)
  IN  IF Len(found) > 0 /\ found[1] # << >> THEN << found[1] >> ELSE << >>

\* ------------------------------------------------------------------------
\* validateBomEntry
\* ------------------------------------------------------------------------

Issue(type, severity, field, original, suggestion, tpl, autoCorrected) ==
  [type |-> type, severity |-> severity, field |-> field, original |-> original,
   suggestion |-> suggestion,
   description |-> [tpl |-> tpl, field |-> field, word |-> original, correction |-> suggestion],
   autoCorrected |-> autoCorrected]

\* mutant: only an absent key counts as missing
IsMissingAbsentOnly(entry, field) == ~HasKey(entry, field)

\* !entry[field] || entry[field] === ''
IsMissing(entry, field) == ~HasKey(entry, field) \/ Get(entry, field) = << >>

RECURSIVE MissingFieldIssues(_, _)
MissingFieldIssues(entry, fields) ==
  IF Len(fields) = 0 THEN << >>
  ELSE (IF IsMissing(entry, fields[1])
          THEN << [type |-> "missing_field", severity |-> "critical", field |-> fields[1],
                   original |-> << >>, suggestion |-> S_Required,
                   description |-> [tpl |-> "Missing required field: ", field |-> fields[1],
                                    word |-> << >>, correction |-> << >>],
                   autoCorrected |-> FALSE] >>
          ELSE << >>)
       \o MissingFieldIssues(entry, Tail(fields))

\* mutant: the map is searched for the word as written, not in lower case
CorrectWordCaseSensitive(field, word, terminologyDict) ==
  IF MapHas(terminologyDict, word)
    THEN [word |-> terminologyDict[word],
          issues |-> IF word # terminologyDict[word]
                       THEN << Issue("terminology", "medium", field, word, terminologyDict[word],
                                     "Incorrect terminology: ", TRUE) >>
                       ELSE << >>,
          fieldCorrected |-> word # terminologyDict[word]]
    ELSE [word |-> word, issues |-> << >>, fieldCorrected |-> FALSE]

\* the body of `for (const word of words)`: the word pushed onto
\* correctedWords, the issues pushed, and whether fieldCorrected was set
CorrectWord(field, word, terminologyDict) ==
  LET lowerWord == toLowerCase(word)
  IN  IF MapHas(terminologyDict, lowerWord)
        THEN LET correction == terminologyDict[lowerWord]
             IN  [word |-> correction,
                  issues |-> IF word # correction
                               THEN << Issue("terminology", "medium", field, word, correction,
                                             "Incorrect terminology: ", TRUE) >>
                               ELSE << >>,
                  fieldCorrected |-> word # correction]
        ELSE LET spellingIssue == checkSpelling(word)
             IN  IF Len(spellingIssue) > 0
                   THEN [word |-> spellingIssue[1],
                         issues |-> << Issue("spelling", "low", field, word, spellingIssue[1],
                                             "Possible spelling error: ", TRUE) >>,
                         fieldCorrected |-> TRUE]
                   ELSE [word |-> word, issues |-> << >>, fieldCorrected |-> FALSE]

\* the loop `for (const word of words)`, from the state its variables are
\* in: the array correctedWords, the issues pushed so far, fieldCorrected
RECURSIVE CorrectWords(_, _, _, _, _, _)
CorrectWords(field, words, terminologyDict, correctedWords, issues, fieldCorrected) ==
  IF Len(words) = 0
    THEN [correctedWords |-> correctedWords, issues |-> issues,
          fieldCorrected |-> fieldCorrected]
    ELSE LET w == CorrectWord(field, words[1], terminologyDict)
         IN  CorrectWords(field, Tail(words), terminologyDict,
                          Append(correctedWords, w.word),
                          issues \o w.issues,
                          fieldCorrected \/ w.fieldCorrected)

\* mutant: `const corrected = entry`, an alias instead of a copy
ObjectSpreadAlias(heap, src, dst) == [heap |-> heap, ref |-> src]

\* `const corrected = { ...entry }`: a new object holding entry's properties.
\* The heap maps references to objects.
ObjectSpread(heap, src, dst) ==
  [heap |-> [r \in (DOMAIN heap) \cup {dst} |-> IF r = dst THEN heap[src] ELSE heap[r]],
   ref |-> dst]

\* if (fieldCorrected) corrected[field] = correctedWords.join(' ')
SetField(object, field, c) ==
  IF c.fieldCorrected THEN Put(object, field, Join(c.correctedWords, << " " >>)) ELSE object

\* the loop over Object.entries(entry), from the state its variables are in,
\* and the return statement that follows it; `entries` is what is left of the
\* array that Object.entries returned before the first iteration
RECURSIVE CorrectFields(_, _, _, _, _)
CorrectFields(heap, corrected, entries, terminologyDict, issues) ==
  IF Len(entries) = 0
    THEN [heap |-> heap, entry |-> "entry", issues |-> issues, corrected |-> corrected]
  ELSE IF entries[1][2] = << >>
    THEN CorrectFields(heap, corrected, Tail(entries), terminologyDict, issues)
  ELSE LET c == CorrectWords(entries[1][1], SplitWs(entries[1][2]), terminologyDict,
                             << >>, << >>, FALSE)
       IN  CorrectFields([heap EXCEPT ![corrected] = SetField(@, entries[1][1], c)],
                         corrected, Tail(entries), terminologyDict, issues \o c.issues)

\* validateBomEntry(entry, terminologyDict), where the two arguments are the
\* references "entry" and "dict" of the heap; the result holds the heap
\* after the call and the references the function returns
validateBomEntry(heap) ==
  LET spread == ObjectSpread(heap, "entry", "corrected")
  IN  CorrectFields(spread.heap, spread.ref, heap["entry"], heap["dict"],
                    MissingFieldIssues(heap["entry"], requiredFields))

\* a call as the handler makes it: fresh entry object, shared dictionary;
\* the value returned by the one call is named r
ValidateRow(entry, terminologyDict) ==
  CHOOSE result \in
    { [entry |-> r.heap[r.entry], issues |-> r.issues, corrected |-> r.heap[r.corrected]] :
        r \in { validateBomEntry([entry |-> entry, dict |-> terminologyDict]) } } : TRUE

\* ------------------------------------------------------------------------
\* calculateQualityScore (exact rational arithmetic; a number is [n, d], d > 0)
\* ------------------------------------------------------------------------

RECURSIVE GCD(_, _)
GCD(a, b) == IF b = 0 THEN a ELSE GCD(b, a % b)

Abs(x) == IF x < 0 THEN -x ELSE x

Rat(n, d) ==
  LET g == GCD(Abs(n), d) IN [n |-> n \div g, d |-> d \div g]

RatTimes(r, k) == Rat(r.n * k, r.d)

RatMinInt(r, k) == IF r.n <= k * r.d THEN r ELSE Rat(k, 1)

RatMaxInt(r, k) == IF r.n >= k * r.d THEN r ELSE Rat(k, 1)

IntMinusRat(k, r) == Rat(k * r.d - r.n, r.d)

\* mutant: the penalty without its cap of 50
calculateQualityScoreUncapped(totalIssues, totalEntries) ==
  IF totalEntries = 0 THEN Rat(100, 1)
  ELSE RatMaxInt(IntMinusRat(100, RatTimes(Rat(totalIssues, totalEntries), 10)), 0)

\* mutant: the penalty capped at the base score
calculateQualityScoreCapAtBase(totalIssues, totalEntries) ==
  IF totalEntries = 0 THEN Rat(100, 1)
  ELSE RatMaxInt(IntMinusRat(100, RatMinInt(RatTimes(Rat(totalIssues, totalEntries), 10), 100)),
                 0)

calculateQualityScore(totalIssues, totalEntries) ==
  IF totalEntries = 0 THEN Rat(100, 1)
  ELSE LET issuesPerEntry == Rat(totalIssues, totalEntries)
           baseScore == 100
           penalty == RatMinInt(RatTimes(issuesPerEntry, 10), 50)
       IN  RatMaxInt(IntMinusRat(baseScore, penalty), 0)

\* ------------------------------------------------------------------------
\* parseBoMFile, generateCSV and the values the handler derives from a row
\* ------------------------------------------------------------------------

\* a || b on strings
OrElse(a, b) == IF a # << >> THEN a ELSE b

RECURSIVE ParseEntries(_, _, _)
ParseEntries(headers, lines, i) ==
  IF i > Len(lines) THEN << >>
  ELSE LET cells == SplitOn(lines[i], ",")
           values == [k \in 1..Len(cells) |-> trim(cells[k])]
           SetHeaders[n \in 0..Len(headers)] ==
             IF n = 0 THEN << >>
             ELSE Put(SetHeaders[n - 1], headers[n],
                      IF n <= Len(values) THEN OrElse(values[n], << >>) ELSE << >>)
       IN  << SetHeaders[Len(headers)] >> \o ParseEntries(headers, lines, i + 1)

parseBoMFile(content) ==
  LET lines == SelectSeq(SplitOn(content, "\n"), LAMBDA line : trim(line) # << >>)
  IN  IF Len(lines) = 0 THEN << >>
      ELSE LET cells == SplitOn(lines[1], ",")
               headers == [k \in 1..Len(cells) |-> trim(cells[k])]
           IN  ParseEntries(headers, lines, 2)

generateCSV(entries) ==
  IF Len(entries) = 0 THEN << >>
  ELSE LET headers == Keys(entries[1])
           csvLines == << Join(headers, << "," >>) >>
                       \o [e \in 1..Len(entries) |->
                             Join([h \in 1..Len(headers) |->
                                     OrElse(Get(entries[e], headers[h]), << >>)], << "," >>)]
       IN  Join(csvLines, << "\n" >>)

IsDigit(c) == c \in {"0", "1", "2", "3", "4", "5", "6", "7", "8", "9"}

DigitValue(c) ==
  CASE c = "0" -> 0 [] c = "1" -> 1 [] c = "2" -> 2 [] c = "3" -> 3 [] c = "4" -> 4
    [] c = "5" -> 5 [] c = "6" -> 6 [] c = "7" -> 7 [] c = "8" -> 8 [] c = "9" -> 9

RECURSIVE DigitsValue(_, _, _)
DigitsValue(s, i, acc) ==
  IF i <= Len(s) /\ IsDigit(s[i]) THEN DigitsValue(s, i + 1, acc * 10 + DigitValue(s[i])) ELSE acc

\* parseInt(s) || 0: leading whitespace, an optional sign, then the longest
\* run of digits; NaN (no digit) and 0 both give 0
ParseIntOrZero(s) ==
  LET start == SkipSpaces(s, 1)
      signed == start <= Len(s) /\ s[start] \in {"+", "-"}
      first == IF signed THEN start + 1 ELSE start
      magnitude == DigitsValue(s, first, 0)
  IN  IF first > Len(s) \/ ~IsDigit(s[first]) THEN 0
      ELSE IF signed /\ s[start] = "-" THEN -magnitude ELSE magnitude

\* result.issues.map(issue => ({ rule_id, rule_name, severity, ... }))
RuleViolations(issues) ==
  [k \in 1..Len(issues) |->
     [rule_id |-> IF issues[k].type = "missing_field" THEN "102" ELSE "101",
      rule_name |-> IF issues[k].type = "missing_field"
                      THEN "Material Description Length" ELSE "Part Number Formatting",
      severity |-> issues[k].severity,
      description |-> issues[k].description,
      field |-> issues[k].field,
      current_value |-> issues[k].original]]

RECURSIVE SuggestedCorrections(_)
SuggestedCorrections(issues) ==
  IF Len(issues) = 0 THEN << >>
  ELSE LET n == Len(issues)
           before == SuggestedCorrections(SubSeq(issues, 1, n - 1))
       IN  IF issues[n].autoCorrected /\ issues[n].suggestion # << >>
             THEN Put(before, issues[n].field, issues[n].suggestion)
             ELSE before

\* mutant: an issue of any severity below critical makes a warning
ItemStatusAnyIssueWarns(issues) ==
  IF \E k \in 1..Len(issues) : issues[k].severity = "critical" THEN "error"
  ELSE IF Len(issues) > 0 THEN "warning"
  ELSE "valid"

ItemStatus(issues) ==
  IF \E k \in 1..Len(issues) : issues[k].severity = "critical" THEN "error"
  ELSE IF \E k \in 1..Len(issues) : issues[k].severity \in {"high", "medium"} THEN "warning"
  ELSE "valid"

\* the object pushed onto bomItems for one row
BomItem(checkId, entry, result) ==
  [check_id |-> checkId,
   part_number |-> OrElse(Get(entry, F_partNumber), S_Unknown),
   description |-> OrElse(OrElse(Get(entry, F_description), Get(entry, F_partName)), << >>),
   quantity |-> ParseIntOrZero(Get(entry, F_quantity)),
   status |-> ItemStatus(result.issues),
   rule_violations |-> RuleViolations(result.issues),
   suggested_corrections |-> SuggestedCorrections(result.issues)]

\* the objects pushed onto allIssues for one row
IssueRows(checkId, issues) ==
  [k \in 1..Len(issues) |->
     [check_id |-> checkId,
      check_type |-> "bom",
      issue_type |-> issues[k].type,
      severity |-> issues[k].severity,
      field_name |-> issues[k].field,
      original_value |-> issues[k].original,
      suggested_value |-> issues[k].suggestion,
      auto_corrected |-> issues[k].autoCorrected,
      description |-> issues[k].description]]

RECURSIVE Flatten(_)
Flatten(seqs) == IF Len(seqs) = 0 THEN << >> ELSE seqs[1] \o Flatten(Tail(seqs))

\* validationResults after the loop `for (const entry of bomEntries)`
RECURSIVE ValidationResults(_, _)
ValidationResults(bomEntries, terminologyDict) ==
  IF Len(bomEntries) = 0 THEN << >>
  ELSE << ValidateRow(bomEntries[1], terminologyDict) >>
       \o ValidationResults(Tail(bomEntries), terminologyDict)

\* the loop `for (const entry of bomEntries)`: the three arrays it fills
ValidateAll(checkId, bomEntries, terminologyDict) ==
  CHOOSE all \in
    { [validationResults |-> results,
       allIssues |-> Flatten([k \in 1..Len(results) |-> IssueRows(checkId, results[k].issues)]),
       bomItems |-> [k \in 1..Len(results) |-> BomItem(checkId, bomEntries[k], results[k])]] :
        results \in { ValidationResults(bomEntries, terminologyDict) } } : TRUE

ItemSummary(entry, emptyPart) ==
  [part_number |-> OrElse(Get(entry, F_partNumber), emptyPart),
   description |-> OrElse(OrElse(Get(entry, F_description), Get(entry, F_partName)), << >>),
   quantity |-> ParseIntOrZero(Get(entry, F_quantity))]

\* the `changes` array of the bom_corrections row
Changes(validationResults) ==
  LET auto(r) == SelectSeq(r.issues, LAMBDA i : i.autoCorrected)
      idx == SelectSeq([k \in 1..Len(validationResults) |-> k],
                       LAMBDA k : Len(auto(validationResults[k])) > 0)
  IN  [n \in 1..Len(idx) |->
         [index |-> idx[n] - 1,
          changes |-> [m \in 1..Len(auto(validationResults[idx[n]])) |->
                         [field |-> auto(validationResults[idx[n]])[m].field,
                          original |-> auto(validationResults[idx[n]])[m].original,
                          corrected |-> auto(validationResults[idx[n]])[m].suggestion]]]]

CorrectionRow(checkId, bomEntries, validationResults) ==
  [check_id |-> checkId,
   original_data |-> [k \in 1..Len(bomEntries) |-> ItemSummary(bomEntries[k], << >>)],
   corrected_data |-> [k \in 1..Len(validationResults) |->
                         ItemSummary(validationResults[k].corrected, << >>)],
   changes |-> Changes(validationResults),
   status |-> "pending"]

\* ------------------------------------------------------------------------
\* Bounded inputs of the pure functions
\* ------------------------------------------------------------------------

NoRet == [none |-> TRUE]

MaxIssues == 16
MaxEntries == 6
MaxRefFiles == 2
MaxItems == 1
MaxWords == 2

\* dictionary records a reference file may hold
DictItems ==
  { [incorrect |-> S_Grbx, correct |-> S_x],
    [incorrect |-> S_Grbx, correct |-> S_THE],
    [incorrect |-> S_Teh, correct |-> S_x],
    [incorrect |-> << >>, correct |-> S_x],
    [incorrect |-> S_Grbx, correct |-> << >>] }

SeqsUpTo(S, n) == UNION { [1..k -> S] : k \in 0..n }

ParsedContents ==
  { [kind |-> "null", items |-> << >>], [kind |-> "object", items |-> << >>] }
  \cup { [kind |-> "array", items |-> it] : it \in SeqsUpTo(DictItems, MaxItems) }

OneItemArray == [kind |-> "array", items |-> << [incorrect |-> S_Grbx, correct |-> S_x] >>]

RefFiles ==
  { [type |-> "dictionary", parsed_content |-> c] : c \in ParsedContents }
  \cup { [type |-> "standard", parsed_content |-> OneItemArray],
         [type |-> "bom_rules", parsed_content |-> OneItemArray] }

DictFile(incorrect, correct) ==
  [type |-> "dictionary",
   parsed_content |-> [kind |-> "array",
                       items |-> << [incorrect |-> incorrect, correct |-> correct] >>]]

\* reference_files contents the validator is exercised with
ReferenceSets ==
  { << >>, << DictFile(S_Teh, S_THE) >>, << DictFile(S_teh, S_teh) >> }

Vocabulary == { << >>, S_Blad3, S_Gearbox, S_gearbox, S_teh, S_bolt, S_constructor }

Separators == { << " " >>, << " ", "\t" >> }

RECURSIVE Texts(_)
Texts(n) ==
  IF n = 0 THEN { << >> }
  ELSE IF n = 1 THEN Vocabulary
  ELSE Texts(n - 1) \cup { t \o s \o w : t \in Texts(n - 1), s \in Separators, w \in Vocabulary }

AllFields == requiredFields \o << S_material >>

RECURSIVE MakeRow(_, _, _)
MakeRow(choice, text, i) ==
  IF i > Len(AllFields) THEN << >>
  ELSE (CASE choice[i] = "absent" -> << >>
          [] choice[i] = "empty" -> << << AllFields[i], << >> >> >>
          [] choice[i] = "teh" -> << << AllFields[i], S_teh >> >>
          [] choice[i] = "P1" -> << << AllFields[i], S_P1 >> >>
          [] OTHER -> << << AllFields[i], text >> >>)
       \o MakeRow(choice, text, i + 1)

\* every combination of absent, empty and non-empty fields
PresenceRows ==
  { MakeRow(c, << >>, 1) : c \in [1..Len(AllFields) -> {"absent", "empty", "teh", "P1"}] }

\* one free-text field (a required one or an optional one) over a background
TextRows ==
  { MakeRow([i \in 1..Len(AllFields) |-> IF i = f THEN "text" ELSE bg], t, 1) :
      f \in {3, 5}, bg \in {"absent", "P1"}, t \in Texts(MaxWords) }

Rows == PresenceRows \cup TextRows

\* ------------------------------------------------------------------------
\* The request handler (Deno.serve callback) and the backing store
\* ------------------------------------------------------------------------

MaxFaults == 1
MaxClock == 2

\* concurrent invocations of the function
Invocations == {1, 2}

Undefined == "<undefined>"
NoLocal == [none |-> TRUE]
NoResponse == [none |-> TRUE]

Csv(lines) == Join([i \in 1..Len(lines) |-> Join(lines[i], << "," >>)], << "\n" >>)

\* two rows under the four required headers: one with a terminology and a
\* spelling error, one with missing fields; a blank last line
FileA ==
  Csv(<< << F_partNumber, F_partName, F_description, F_quantity >>,
         << S_P1, S_Blad3 \o << " " >> \o S_bolt, S_teh, S_3 >>,
         << << >>, S_Gearbox, << >>, S_x >>,
         << << " " >> >> >>)

\* one row under a header without any required field
FileB == Csv(<< << S_material >>, << S_teh \o << " " >> \o S_Teh >> >>)

\* a header and no row
FileC == Csv(<< << F_partNumber, F_quantity >> >>)

\* bom_checks rows as the upload page leaves them, and the uploaded files
InitialCheck(user, path) ==
  [user_id |-> user, file_path |-> path, status |-> "pending",
   quality_score |-> Rat(0, 1), total_entries |-> 0, issues_found |-> 0,
   issues_corrected |-> 0, validation_result |-> << >>,
   corrected_file_path |-> << >>, completed |-> FALSE]

CheckIds == {"c1", "c2"}

\* request bodies: text that is not JSON, the JSON value null, objects
\* without checkId or with a falsy one, and objects naming a check
Requests ==
  { [method |-> "OPTIONS", json |-> "object", checkId |-> Undefined],
    [method |-> "POST", json |-> "malformed", checkId |-> Undefined],
    [method |-> "POST", json |-> "null", checkId |-> Undefined],
    [method |-> "POST", json |-> "object", checkId |-> Undefined],
    [method |-> "POST", json |-> "object", checkId |-> ""],
    [method |-> "POST", json |-> "object", checkId |-> "c0"],
    [method |-> "POST", json |-> "object", checkId |-> "c1"],
    [method |-> "POST", json |-> "object", checkId |-> "c2"] }

\* !checkId
IsFalsy(v) == v \in {Undefined, ""}

\* req.json(): the body of a request can be read once; a second read
\* rejects, as does text that is not JSON
ReqJson(req, used) ==
  IF used THEN [ok |-> FALSE, error |-> "Body already consumed", value |-> "none"]
  ELSE IF req.json = "malformed"
    THEN [ok |-> FALSE, error |-> "Unexpected token in JSON", value |-> "none"]
    ELSE [ok |-> TRUE, error |-> "", value |-> req.json]

\* const { checkId } = <value>
Destructure(req, parsed) ==
  IF parsed.value = "null"
    THEN [ok |-> FALSE, error |-> "Cannot destructure property 'checkId'", checkId |-> Undefined]
    ELSE [ok |-> TRUE, error |-> "", checkId |-> req.checkId]

storeVars == << bom_checks, validation_issues, bom_items, bom_corrections,
                reference_files, bom_uploads, corrected_files >>

\* one request to the backing store: operation, table or bucket, the row or
\* object addressed, the status written (updates only) and whether it succeeded
Call(op, target, key, what, ok) ==
  [op |-> op, target |-> target, key |-> key, what |-> what, ok |-> ok]

\* the outcome of one request to the backing store: it succeeds, or it
\* fails while fewer than MaxFaults failures have been injected
Outcome(ok) == ok \/ faults < MaxFaults

Fault(ok) == IF ok THEN faults ELSE faults + 1

\* mutant: a failed call is issued again
AfterCallRetry(next, current, ok) == IF ok THEN next ELSE current

\* mutant: a failed call ends the processing and the check is closed
AfterCallFinish(next, current, ok) == IF ok THEN next ELSE "update_completed"

\* where the handler continues after an awaited call whose error it does
\* not inspect
AfterCall(next, current, ok) == next

\* mutant: the update without its .eq('id', id) filter
UpdateEveryCheck(table, id, fields) ==
  [c \in DOMAIN table |->
     [f \in DOMAIN table[c] |-> IF f \in DOMAIN fields THEN fields[f] ELSE table[c][f]]]

\* .update(fields).eq('id', id): changes the row with that id, if any
UpdateCheck(table, id, fields) ==
  IF id \in DOMAIN table
    THEN [table EXCEPT ![id] = [f \in DOMAIN table[id] |->
                                  IF f \in DOMAIN fields THEN fields[f] ELSE table[id][f]]]
    ELSE table

\* the rows of a table tagged with the invocation that inserted them
Tagged(rows, i) == [k \in 1..Len(rows) |-> [by |-> i, row |-> rows[k]]]

NoCheck == [user_id |-> "", file_path |-> ""]

InitialLocal ==
  [checkId |-> Undefined, check |-> NoCheck, bomEntries |-> << >>,
   validationResults |-> << >>, allIssues |-> << >>, bomItems |-> << >>,
   correctedFileName |-> << >>, error |-> ""]

\* mutant: if (checkId === undefined)
CheckIdMissingUndefinedOnly(checkId) == checkId = Undefined

\* if (!checkId)
CheckIdMissing(checkId) == IsFalsy(checkId)

\* the state the store is in between requests, and no request in progress
\* ------------------------------------------------------------------------
\* State of the web client and of the database's access control
\* ------------------------------------------------------------------------

VARIABLES
  page,               \* BomCheck component: its state hooks, dialogs and timers
  bom_files,          \* bucket bom-files, by path
  auth_users,         \* table auth.users, by id
  profiles,           \* table profiles, by id
  app,                \* AppContent: what useAuth returns, showLogin, currentPage
  signupForm,         \* SignupForm: its state hooks and the signUp call in flight
  ruleForm,           \* StandardsManagement: its state hooks
  standards_rules     \* table standards_rules, by id

\* value of a variable the running harness does not use
Unused == [unused |-> TRUE]

appVars == << page, bom_files, auth_users, profiles, app, signupForm, ruleForm, standards_rules >>

\* every variable of the given set that is not used by the running harness
AppIdleExcept(used) ==
  /\ ("page" \in used \/ page = Unused)
  /\ ("bom_files" \in used \/ bom_files = Unused)
  /\ ("auth_users" \in used \/ auth_users = Unused)
  /\ ("profiles" \in used \/ profiles = Unused)
  /\ ("app" \in used \/ app = Unused)
  /\ ("signupForm" \in used \/ signupForm = Unused)
  /\ ("ruleForm" \in used \/ ruleForm = Unused)
  /\ ("standards_rules" \in used \/ standards_rules = Unused)

AppIdle == AppIdleExcept({})

\* what the steps of the BomCheck page leave alone, the tables apart
pageFrame == << mode, arg, ret, pc, request, bodyUsed, local, response, calls, clock, faults,
               auth_users, profiles, app, signupForm, ruleForm, standards_rules >>

\* what navigation and changes of the auth state leave alone
navFrame == << mode, arg, ret, pc, request, bodyUsed, local, response, calls, clock, faults,
              bom_checks, validation_issues, bom_items, bom_corrections, reference_files,
              bom_uploads, corrected_files, page, bom_files, auth_users, profiles, signupForm, ruleForm, standards_rules >>

\* what the signup form leaves alone
signupFrame == << mode, arg, ret, pc, request, bodyUsed, local, response, calls, clock, faults,
                 bom_checks, validation_issues, bom_items, bom_corrections, reference_files,
                 bom_uploads, corrected_files, page, bom_files, auth_users, profiles, app, ruleForm, standards_rules >>

\* what the standards rule form leaves alone
ruleFrame == << mode, arg, ret, pc, request, bodyUsed, local, response, calls, clock, faults,
               bom_checks, validation_issues, bom_items, bom_corrections, reference_files,
               bom_uploads, corrected_files, page, bom_files, auth_users, profiles, app,
               signupForm >>

\* what a signup leaves alone
authFrame == << mode, arg, ret, pc, request, bodyUsed, local, response, calls, clock, faults,
               bom_checks, validation_issues, bom_items, bom_corrections, reference_files,
               bom_uploads, corrected_files, page, bom_files, app, signupForm, ruleForm, standards_rules >>

HandlerIdle ==
  /\ pc = [i \in Invocations |-> "idle"]
  /\ request = [i \in Invocations |-> NoLocal]
  /\ bodyUsed = [i \in Invocations |-> FALSE]
  /\ local = [i \in Invocations |-> InitialLocal]
  /\ response = [i \in Invocations |-> NoResponse]
  /\ calls = [i \in Invocations |-> << >>]
  /\ bom_checks = [id \in CheckIds |->
                     InitialCheck("u1", IF id = "c1" THEN "u1/a.csv" ELSE "u1/b.csv")]
  /\ validation_issues = << >>
  /\ bom_items = << >>
  /\ bom_corrections = << >>
  /\ corrected_files = [n \in {} |-> << >>]
  /\ clock = 1
  /\ faults = 0

handlerVars == << pc, request, bodyUsed, local, response, calls, clock, faults >>

vars == << mode, arg, ret, handlerVars, storeVars, appVars >>

InitHandler ==
  /\ mode = "handler"
  /\ arg = NoRet
  /\ ret = NoRet
  /\ HandlerIdle
  /\ AppIdle
  /\ reference_files = << DictFile(S_bolt, S_x) >>
  /\ \E second \in { FileB, FileC } :
       bom_uploads = [p \in {"u1/a.csv", "u1/b.csv"} |-> IF p = "u1/a.csv" THEN FileA ELSE second]

Throw(i, message) ==
  /\ local' = [local EXCEPT ![i].error = message]
  /\ pc' = [pc EXCEPT ![i] = "catch"]

Issue1(i, call) == calls' = [calls EXCEPT ![i] = Append(@, call)]

\* the handler up to its first await: the OPTIONS reply, or the start of
\* req.json().  Invocations are numbered in the order the requests arrive.
Receive(i) ==
  /\ mode = "handler"
  /\ pc[i] = "idle"
  /\ \A j \in Invocations : j < i => pc[j] # "idle"
  /\ \E r \in Requests :
       /\ request' = [request EXCEPT ![i] = r]
       /\ IF r.method = "OPTIONS"
            THEN /\ response' = [response EXCEPT ![i] = [status |-> 200, body |-> NoResponse]]
                 /\ pc' = [pc EXCEPT ![i] = "done"]
            ELSE /\ pc' = [pc EXCEPT ![i] = "read_body"]
                 /\ UNCHANGED response
  /\ UNCHANGED << mode, arg, ret, appVars, bodyUsed, local, calls, clock, faults, storeVars >>

\* const { checkId } = await req.json(); if (!checkId) throw ...
ReadBody(i) ==
  /\ pc[i] = "read_body"
  /\ bodyUsed' = [bodyUsed EXCEPT ![i] = TRUE]
  /\ LET parsed == ReqJson(request[i], bodyUsed[i])
         d == Destructure(request[i], parsed)
     IN  IF ~parsed.ok THEN Throw(i, parsed.error)
         ELSE IF ~d.ok THEN Throw(i, d.error)
         ELSE IF CheckIdMissing(d.checkId) THEN Throw(i, "checkId is required")
         ELSE /\ local' = [local EXCEPT ![i].checkId = d.checkId]
              /\ pc' = [pc EXCEPT ![i] = "update_processing"]
  /\ UNCHANGED << mode, arg, ret, appVars, request, response, calls, clock, faults, storeVars >>

\* await supabase.from('bom_checks').update({ status: 'processing' }).eq('id', checkId)
UpdateProcessing(i) ==
  /\ pc[i] = "update_processing"
  /\ \E ok \in BOOLEAN :
       /\ Outcome(ok)
       /\ faults' = Fault(ok)
       /\ Issue1(i, Call("update", "bom_checks", local[i].checkId, "processing", ok))
       /\ bom_checks' = IF ok THEN UpdateCheck(bom_checks, local[i].checkId, [status |-> "processing"])
                              ELSE bom_checks
       /\ pc' = [pc EXCEPT ![i] = AfterCall("select_check", "update_processing", ok)]
  /\ UNCHANGED << mode, arg, ret, appVars, request, bodyUsed, local, response, clock,
                  validation_issues, bom_items, bom_corrections, reference_files,
                  bom_uploads, corrected_files >>

\* select('*').eq('id', checkId).single(); if (checkError) throw checkError
SelectCheck(i) ==
  /\ pc[i] = "select_check"
  /\ \E ok \in BOOLEAN :
       /\ Outcome(ok)
       /\ faults' = Fault(ok)
       /\ LET found == ok /\ local[i].checkId \in DOMAIN bom_checks
          IN  /\ Issue1(i, Call("select", "bom_checks", local[i].checkId, "", found))
              /\ IF found
                   THEN /\ local' = [local EXCEPT ![i].check =
                                       [user_id |-> bom_checks[local[i].checkId].user_id,
                                        file_path |-> bom_checks[local[i].checkId].file_path]]
                        /\ pc' = [pc EXCEPT ![i] = "download"]
                   ELSE Throw(i, IF ok THEN "no rows returned" ELSE "database error")
  /\ UNCHANGED << mode, arg, ret, appVars, request, bodyUsed, response, clock, storeVars >>

\* storage.from('bom-uploads').download(check.file_path); if (fileError) throw
\* fileError; then fileData.text() and parseBoMFile
Download(i) ==
  /\ pc[i] = "download"
  /\ \E ok \in BOOLEAN :
       /\ Outcome(ok)
       /\ faults' = Fault(ok)
       /\ LET path == local[i].check.file_path
              found == ok /\ path \in DOMAIN bom_uploads
          IN  /\ Issue1(i, Call("download", "bom-uploads", path, "", found))
              /\ IF found
                   THEN /\ local' = [local EXCEPT ![i].bomEntries = parseBoMFile(bom_uploads[path])]
                        /\ pc' = [pc EXCEPT ![i] = "select_refs"]
                   ELSE Throw(i, IF ok THEN "Object not found" ELSE "storage error")
  /\ UNCHANGED << mode, arg, ret, appVars, request, bodyUsed, response, clock, storeVars >>

\* the reference_files query, buildTerminologyDict(referenceFiles || []) and
\* the validation loop
SelectReferences(i) ==
  /\ pc[i] = "select_refs"
  /\ \E ok \in BOOLEAN :
       /\ Outcome(ok)
       /\ faults' = Fault(ok)
       /\ Issue1(i, Call("select", "reference_files", "type", "", ok))
       /\ \E terminologyDict \in { buildTerminologyDict(IF ok THEN reference_files ELSE << >>) } :
            \E all \in { ValidateAll(local[i].checkId, local[i].bomEntries, terminologyDict) } :
              local' = [local EXCEPT ![i].validationResults = all.validationResults,
                                     ![i].allIssues = all.allIssues,
                                     ![i].bomItems = all.bomItems]
       /\ pc' = [pc EXCEPT ![i] = AfterCall("insert_issues", "select_refs", ok)]
  /\ UNCHANGED << mode, arg, ret, appVars, request, bodyUsed, response, clock, storeVars >>

\* if (allIssues.length > 0) await supabase.from('validation_issues').insert(allIssues)
InsertIssues(i) ==
  /\ pc[i] = "insert_issues"
  /\ IF Len(local[i].allIssues) > 0
       THEN \E ok \in BOOLEAN :
              /\ Outcome(ok)
              /\ faults' = Fault(ok)
              /\ Issue1(i, Call("insert", "validation_issues", local[i].checkId, "", ok))
              /\ validation_issues' = IF ok THEN validation_issues \o Tagged(local[i].allIssues, i)
                                            ELSE validation_issues
              /\ pc' = [pc EXCEPT ![i] = AfterCall("insert_items", "insert_issues", ok)]
       ELSE /\ pc' = [pc EXCEPT ![i] = "insert_items"]
            /\ UNCHANGED << faults, calls, validation_issues >>
  /\ UNCHANGED << mode, arg, ret, appVars, request, bodyUsed, local, response, clock,
                  bom_checks, bom_items, bom_corrections, reference_files,
                  bom_uploads, corrected_files >>

\* if (bomItems.length > 0) await supabase.from('bom_items').insert(bomItems)
InsertItems(i) ==
  /\ pc[i] = "insert_items"
  /\ IF Len(local[i].bomItems) > 0
       THEN \E ok \in BOOLEAN :
              /\ Outcome(ok)
              /\ faults' = Fault(ok)
              /\ Issue1(i, Call("insert", "bom_items", local[i].checkId, "", ok))
              /\ bom_items' = IF ok THEN bom_items \o Tagged(local[i].bomItems, i) ELSE bom_items
              /\ pc' = [pc EXCEPT ![i] = AfterCall("upload", "insert_items", ok)]
       ELSE /\ pc' = [pc EXCEPT ![i] = "upload"]
            /\ UNCHANGED << faults, calls, bom_items >>
  /\ UNCHANGED << mode, arg, ret, appVars, request, bodyUsed, local, response, clock,
                  bom_checks, validation_issues, bom_corrections, reference_files,
                  bom_uploads, corrected_files >>

\* generateCSV, the name `${check.user_id}/${Date.now()}_corrected.csv` and
\* the upload to corrected-files (refused when the name is taken)
UploadCorrected(i) ==
  /\ pc[i] = "upload"
  /\ \E ok \in BOOLEAN, now \in {clock, clock + 1} :
       /\ now <= MaxClock
       /\ Outcome(ok)
       /\ faults' = Fault(ok)
       /\ clock' = now
       /\ LET name == << local[i].check.user_id, now >>
              content == generateCSV([k \in 1..Len(local[i].validationResults) |->
                                        local[i].validationResults[k].corrected])
              stored == ok /\ name \notin DOMAIN corrected_files
          IN  /\ Issue1(i, Call("upload", "corrected-files", name, "", stored))
              /\ corrected_files' =
                   IF stored
                     THEN [n \in (DOMAIN corrected_files) \cup {name} |->
                             IF n = name THEN [by |-> i, content |-> content] ELSE corrected_files[n]]
                     ELSE corrected_files
              /\ local' = [local EXCEPT ![i].correctedFileName = name]
       /\ pc' = [pc EXCEPT ![i] = AfterCall("insert_corrections", "upload", ok)]
  /\ UNCHANGED << mode, arg, ret, appVars, request, bodyUsed, response,
                  bom_checks, validation_issues, bom_items, bom_corrections,
                  reference_files, bom_uploads >>

\* await supabase.from('bom_corrections').insert({ ... })
InsertCorrections(i) ==
  /\ pc[i] = "insert_corrections"
  /\ \E ok \in BOOLEAN :
       /\ Outcome(ok)
       /\ faults' = Fault(ok)
       /\ Issue1(i, Call("insert", "bom_corrections", local[i].checkId, "", ok))
       /\ bom_corrections' =
            IF ok
              THEN bom_corrections
                   \o Tagged(<< CorrectionRow(local[i].checkId, local[i].bomEntries,
                                              local[i].validationResults) >>, i)
              ELSE bom_corrections
       /\ pc' = [pc EXCEPT ![i] = AfterCall("update_completed", "insert_corrections", ok)]
  /\ UNCHANGED << mode, arg, ret, appVars, request, bodyUsed, local, response, clock,
                  bom_checks, validation_issues, bom_items, reference_files,
                  bom_uploads, corrected_files >>

\* totalIssues, correctedIssues and qualityScore of the try block
TotalIssues(l) == Len(l.allIssues)

\* mutant: the count without its filter on auto_corrected
CorrectedIssuesUnfiltered(l) == Len(l.allIssues)

CorrectedIssues(l) == Len(SelectSeq(l.allIssues, LAMBDA r : r.auto_corrected))

QualityScore(l) == calculateQualityScore(TotalIssues(l), Len(l.bomEntries))

\* the final update to 'completed' and the 200 response
UpdateCompleted(i) ==
  /\ pc[i] = "update_completed"
  /\ \E ok \in BOOLEAN :
       /\ Outcome(ok)
       /\ faults' = Fault(ok)
       /\ Issue1(i, Call("update", "bom_checks", local[i].checkId, "completed", ok))
       /\ bom_checks' =
            IF ok
              THEN UpdateCheck(bom_checks, local[i].checkId,
                     [status |-> "completed",
                      quality_score |-> QualityScore(local[i]),
                      total_entries |-> Len(local[i].bomEntries),
                      issues_found |-> TotalIssues(local[i]),
                      issues_corrected |-> CorrectedIssues(local[i]),
                      validation_result |-> local[i].validationResults,
                      corrected_file_path |-> local[i].correctedFileName,
                      completed |-> TRUE])
              ELSE bom_checks
       /\ LET next == AfterCall("done", "update_completed", ok)
          IN  /\ pc' = [pc EXCEPT ![i] = next]
              /\ response' =
                   IF next = "done"
                     THEN [response EXCEPT ![i] =
                             [status |-> 200,
                              body |-> [success |-> TRUE, checkId |-> local[i].checkId,
                                        qualityScore |-> QualityScore(local[i]),
                                        totalIssues |-> TotalIssues(local[i]),
                                        correctedIssues |-> CorrectedIssues(local[i])]]]
                     ELSE response
  /\ UNCHANGED << mode, arg, ret, appVars, request, bodyUsed, local, clock,
                  validation_issues, bom_items, bom_corrections, reference_files,
                  bom_uploads, corrected_files >>

\* const { checkId } = await req.json().catch(() => ({ checkId: null }))
CatchCheckId(i) ==
  LET again == ReqJson(request[i], bodyUsed[i])
  IN  IF again.ok THEN Destructure(request[i], again).checkId ELSE Undefined

\* the catch block: the second read of the body, the update to 'failed' when
\* that read yields a checkId, and the 500 response
Catch(i) ==
  /\ pc[i] = "catch"
  /\ bodyUsed' = [bodyUsed EXCEPT ![i] = TRUE]
  /\ LET checkId == CatchCheckId(i)
     IN  IF ~IsFalsy(checkId)
           THEN \E ok \in BOOLEAN :
                  /\ Outcome(ok)
                  /\ faults' = Fault(ok)
                  /\ Issue1(i, Call("update", "bom_checks", checkId, "failed", ok))
                  /\ bom_checks' = IF ok THEN UpdateCheck(bom_checks, checkId, [status |-> "failed"])
                                         ELSE bom_checks
           ELSE UNCHANGED << faults, calls, bom_checks >>
  /\ response' = [response EXCEPT ![i] = [status |-> 500, body |-> [error |-> local[i].error]]]
  /\ pc' = [pc EXCEPT ![i] = "done"]
  /\ UNCHANGED << mode, arg, ret, appVars, request, local, clock,
                  validation_issues, bom_items, bom_corrections, reference_files,
                  bom_uploads, corrected_files >>

NextHandler ==
  \E i \in Invocations :
    \/ Receive(i)
    \/ ReadBody(i)
    \/ UpdateProcessing(i)
    \/ SelectCheck(i)
    \/ Download(i)
    \/ SelectReferences(i)
    \/ InsertIssues(i)
    \/ InsertItems(i)
    \/ UploadCorrected(i)
    \/ InsertCorrections(i)
    \/ UpdateCompleted(i)
    \/ Catch(i)

SpecHandler == InitHandler /\ [][NextHandler]_vars

\* ------------------------------------------------------------------------
\* Harnesses applying the pure functions
\* ------------------------------------------------------------------------

InitScore ==
  /\ mode = "score"
  /\ arg \in [totalIssues : 0..MaxIssues, totalEntries : 0..MaxEntries]
  /\ ret = NoRet
  /\ HandlerIdle
  /\ AppIdle
  /\ reference_files = << >>
  /\ bom_uploads = [p \in {} |-> << >>]

CallScore ==
  /\ mode = "score"
  /\ ret = NoRet
  /\ ret' = [score |-> calculateQualityScore(arg.totalIssues, arg.totalEntries)]
  /\ UNCHANGED << mode, arg, handlerVars, storeVars, appVars >>

SpecScore == InitScore /\ [][CallScore]_vars

InitDict ==
  /\ mode = "dict"
  /\ arg \in [referenceFiles : SeqsUpTo(RefFiles, MaxRefFiles)]
  /\ ret = NoRet
  /\ HandlerIdle
  /\ AppIdle
  /\ reference_files = << >>
  /\ bom_uploads = [p \in {} |-> << >>]

CallBuildDict ==
  /\ mode = "dict"
  /\ ret = NoRet
  /\ ret' = [dict |-> buildTerminologyDict(arg.referenceFiles)]
  /\ UNCHANGED << mode, arg, handlerVars, storeVars, appVars >>

SpecDict == InitDict /\ [][CallBuildDict]_vars

InitValidate ==
  /\ mode = "validate"
  /\ \E entry \in Rows, refs \in ReferenceSets :
       arg = [heap |-> [entry |-> entry, dict |-> buildTerminologyDict(refs)]]
  /\ ret = NoRet
  /\ HandlerIdle
  /\ AppIdle
  /\ reference_files = << >>
  /\ bom_uploads = [p \in {} |-> << >>]

CallValidate ==
  /\ mode = "validate"
  /\ ret = NoRet
  /\ ret' = validateBomEntry(arg.heap)
  /\ UNCHANGED << mode, arg, handlerVars, storeVars, appVars >>

SpecValidate == InitValidate /\ [][CallValidate]_vars

\* ------------------------------------------------------------------------
\* Claims about the pure functions
\* ------------------------------------------------------------------------

Validated == mode = "validate" /\ ret # NoRet

\* the issues recorded for one field, without their description
FieldIssues(issues, field, types) ==
  LET sel == SelectSeq(issues, LAMBDA i : i.field = field /\ i.type \in types)
  IN  [j \in 1..Len(sel) |->
         [type |-> sel[j].type, severity |-> sel[j].severity, original |-> sel[j].original,
          suggestion |-> sel[j].suggestion, autoCorrected |-> sel[j].autoCorrected]]

\* the substitution the claim describes for one token
ClaimedReplacement(token, dict) ==
  LET low == toLowerCase(token)
  IN  IF low \in DOMAIN dict THEN dict[low]
      ELSE IF \E r \in 1..Len(spellingRules) : spellingRules[r][1] = low
        THEN spellingRules[CHOOSE r \in 1..Len(spellingRules) : spellingRules[r][1] = low][2]
        ELSE token

ClaimedIssues(tokens, dict) ==
  LET all == [j \in 1..Len(tokens) |->
                LET inDict == toLowerCase(tokens[j]) \in DOMAIN dict
                IN  [type |-> IF inDict THEN "terminology" ELSE "spelling",
                     severity |-> IF inDict THEN "medium" ELSE "low",
                     original |-> tokens[j],
                     suggestion |-> ClaimedReplacement(tokens[j], dict),
                     autoCorrected |-> TRUE]]
  IN  SelectSeq(all, LAMBDA i : i.suggestion # i.original)

\* C2 (as stated): every token of every non-empty field is replaced by the
\* terminology map's value, else by the spelling table's value, else kept;
\* one terminology/medium or spelling/low auto-corrected issue is recorded for
\* exactly each token whose replacement differs from it; the field of the
\* corrected row is the replaced tokens joined by single spaces (read here
\* for the fields in which a token was replaced by a different one; a field
\* without such a token keeps its text).
C2_TokenSubstitution ==
  Validated =>
    LET entry == arg.heap["entry"]
        dict == arg.heap["dict"]
        corrected == ret.heap[ret.corrected]
    IN  \A i \in 1..Len(entry) :
          entry[i][2] # << >> =>
            LET tokens == SplitWs(entry[i][2])
                replaced == [j \in 1..Len(tokens) |-> ClaimedReplacement(tokens[j], dict)]
            IN  /\ FieldIssues(ret.issues, entry[i][1], {"terminology", "spelling"})
                     = ClaimedIssues(tokens, dict)
                /\ Get(corrected, entry[i][1])
                     = IF ClaimedIssues(tokens, dict) # << >>
                         THEN Join(replaced, << " " >>)
                         ELSE entry[i][2]

\* the row has no value, or an empty value, under the key
HasNoValue(entry, field) == \A i \in 1..Len(entry) : entry[i][1] = field => entry[i][2] = << >>

\* C3: for each of partNumber, partName, description and quantity the result
\* holds exactly one missing_field issue (critical, original '', suggestion
\* '[Required]', not auto-corrected) iff the row has no value or an empty value
\* under that key, and no missing_field issue names any other field.
C3_MissingFields ==
  Validated =>
    LET entry == arg.heap["entry"]
        required == { F_partNumber, F_partName, F_description, F_quantity }
    IN  /\ \A f \in required :
             FieldIssues(ret.issues, f, {"missing_field"})
               = IF HasNoValue(entry, f)
                   THEN << [type |-> "missing_field", severity |-> "critical", original |-> << >>,
                            suggestion |-> S_Required, autoCorrected |-> FALSE] >>
                   ELSE << >>
        /\ \A j \in 1..Len(ret.issues) :
             ret.issues[j].type = "missing_field" => ret.issues[j].field \in required

\* C3 witness: a validated row with a required field absent, another present
\* but empty, and a third holding a value
C3_Witness ==
  /\ Validated
  /\ ~HasKey(arg.heap["entry"], F_partNumber)
  /\ HasKey(arg.heap["entry"], F_partName) /\ Get(arg.heap["entry"], F_partName) = << >>
  /\ Get(arg.heap["entry"], F_quantity) # << >>
  /\ Len(FieldIssues(ret.issues, F_partNumber, {"missing_field"})) = 1

\* the contributing user records as <<file index, item index>> pairs
UserRecords(files) ==
  { p \in UNION { { << f, j >> : j \in 1..Len(files[f].parsed_content.items) } :
                  f \in 1..Len(files) } :
      /\ files[p[1]].type = "dictionary"
      /\ files[p[1]].parsed_content.kind = "array"
      /\ files[p[1]].parsed_content.items[p[2]].incorrect # << >>
      /\ files[p[1]].parsed_content.items[p[2]].correct # << >> }

\* the lowercase misspellings of the hard-coded table
HardCodedKeys == { toLowerCase(commonTerms[i][1]) : i \in 1..Len(commonTerms) }

RecordAt(files, p) == files[p[1]].parsed_content.items[p[2]]

Later(p, q) == p[1] > q[1] \/ (p[1] = q[1] /\ p[2] >= q[2])

\* C4: the map holds exactly the lowercase hard-coded misspellings and the
\* lowercase 'incorrect' of every complete record of every dictionary file
\* with an array content; a key some user record sets maps to the 'correct'
\* of the last such record (user over hard-coded, later file over earlier),
\* every other key to its hard-coded correction; other files add nothing.
C4_TerminologyMerge ==
  (mode = "dict" /\ ret # NoRet) =>
    LET files == arg.referenceFiles
        dict == ret.dict
        user == UserRecords(files)
        hard == 1..Len(commonTerms)
    IN  /\ DOMAIN dict = HardCodedKeys
                           \cup { toLowerCase(RecordAt(files, p).incorrect) : p \in user }
        /\ \A k \in DOMAIN dict :
             LET setters == { p \in user : toLowerCase(RecordAt(files, p).incorrect) = k }
             IN  IF setters # {}
                   THEN \E p \in setters :
                          /\ \A q \in setters : Later(p, q)
                          /\ dict[k] = RecordAt(files, p).correct
                   ELSE \E i \in hard :
                          toLowerCase(commonTerms[i][1]) = k /\ dict[k] = commonTerms[i][2]

\* C4 witness: two dictionary files set the hard-coded key 'grbx' to
\* different corrections, next to a file of another type
C4_Witness ==
  /\ mode = "dict" /\ ret # NoRet
  /\ \E p, q \in UserRecords(arg.referenceFiles) :
       /\ p[1] < q[1]
       /\ toLowerCase(RecordAt(arg.referenceFiles, p).incorrect) = S_grbx
       /\ toLowerCase(RecordAt(arg.referenceFiles, q).incorrect) = S_grbx
       /\ RecordAt(arg.referenceFiles, p).correct # RecordAt(arg.referenceFiles, q).correct
       /\ ret.dict[S_grbx] = RecordAt(arg.referenceFiles, q).correct

\* C6: the call leaves the input row and the terminology map as they were,
\* returns the input row itself as 'entry', and returns a 'corrected' row with
\* the input's keys that differs from the input only in fields for which an
\* auto-corrected issue was recorded.
C6_PureFunction ==
  Validated =>
    LET entry == arg.heap["entry"]
        corrected == ret.heap[ret.corrected]
    IN  /\ ret.heap["entry"] = entry
        /\ ret.heap["dict"] = arg.heap["dict"]
        /\ ret.entry = "entry"
        /\ Keys(corrected) = Keys(entry)
        /\ \A i \in 1..Len(entry) :
             corrected[i][2] # entry[i][2] =>
               \E j \in 1..Len(ret.issues) :
                 ret.issues[j].autoCorrected /\ ret.issues[j].field = entry[i][1]

\* C6 witness: a call that corrected one field and left another untouched
C6_Witness ==
  /\ Validated
  /\ \E i, k \in 1..Len(arg.heap["entry"]) :
       /\ ret.heap[ret.corrected][i][2] # arg.heap["entry"][i][2]
       /\ ret.heap[ret.corrected][k][2] = arg.heap["entry"][k][2]
       /\ arg.heap["entry"][k][2] # << >>

\* ------------------------------------------------------------------------
\* Claims about the request handler
\* ------------------------------------------------------------------------

Received(i) == pc[i] # "idle"

\* invocation i serves a POST whose JSON object names check c
Names(i, c) == Received(i) /\ request[i].method = "POST" /\ request[i].json = "object"
               /\ request[i].checkId = c

Writes(i) == SelectSeq(calls[i], LAMBDA c : c.op \in {"update", "insert", "upload"})

RowsOf(table, c) == SelectSeq(table, LAMBDA r : r.row.check_id = c)

RowsBy(table, i) == SelectSeq(table, LAMBDA r : r.by = i)

\* C1 (as stated): an invocation that carries a checkId and raised an
\* exception leaves the bom_checks record of that id 'failed' and answers 500
\* with the error message (no other invocation has touched the record).
C1_FailedOnException ==
  \A i \in Invocations, c \in CheckIds :
    ( /\ mode = "handler"
      /\ Names(i, c)
      /\ pc[i] = "done"
      /\ local[i].error # ""
      /\ \A j \in Invocations \ {i} : ~Names(j, c) )
    => /\ bom_checks[c].status = "failed"
       /\ response[i] = [status |-> 500, body |-> [error |-> local[i].error]]

\* the score the claim gives for I issues over E entries, as the equation
\* score * E = 100 * E - min(10 * I, 50 * E) and score >= 0
ClaimedScore(score, I, E) ==
  IF E = 0 THEN score.n = 100 * score.d
  ELSE LET capped == IF 10 * I <= 50 * E THEN 10 * I ELSE 50 * E
       IN  /\ score.n * E = score.d * (100 * E - capped)
           /\ score.n >= 0

\* what a run over one uploaded file yields, with the user dictionaries
\* (refs = TRUE) or without them (the reference query failed)
FiguresOf(content, refs) ==
  LET entries == parseBoMFile(content)
      all == ValidateAll("", entries,
                         buildTerminologyDict(IF refs THEN << DictFile(S_bolt, S_x) >> ELSE << >>))
  IN  [entries |-> Len(entries),
       issues |-> Len(all.allIssues),
       corrected |-> Len(SelectSeq(all.allIssues, LAMBDA r : r.auto_corrected))]

Figures == [f \in {FileA, FileB, FileC} |-> [refs \in BOOLEAN |-> FiguresOf(f, refs)]]

\* the function agrees with the claimed formula on every bounded input
ScoreMatchesFormula ==
  \A I \in 0..MaxIssues, E \in 0..MaxEntries : ClaimedScore(calculateQualityScore(I, E), I, E)

\* C5: calculateQualityScore(I, 0) = 100 and, for E > 0,
\* calculateQualityScore(I, E) = max(100 - min(10 * I / E, 50), 0); the score
\* stored on a completed check is that value for the number of issues over
\* all rows of its file and the number of rows parsed from it.
C5_QualityScore ==
  /\ ScoreMatchesFormula
  /\ \A c \in CheckIds :
       (mode = "handler" /\ bom_checks[c].status = "completed") =>
         \E refs \in BOOLEAN :
           LET fig == Figures[bom_uploads[bom_checks[c].file_path]][refs]
           IN  ClaimedScore(bom_checks[c].quality_score, fig.issues, fig.entries)

\* C5 witness: completed checks whose score is 100 (no row), strictly between
\* 50 and 100, and 50 (the cap)
C5_Witness ==
  /\ mode = "handler"
  /\ bom_checks["c1"].status = "completed" /\ bom_checks["c2"].status = "completed"
  /\ bom_checks["c1"].quality_score = [n |-> 80, d |-> 1]
  /\ bom_checks["c2"].quality_score = [n |-> 50, d |-> 1]
  /\ bom_checks["c2"].issues_found = 6

C8_NoRetryNoRecovery ==
  mode = "handler" =>
    \A i \in Invocations :
      /\ \A k, m \in 1..Len(calls[i]) :
           ( /\ calls[i][k].op = calls[i][m].op
             /\ calls[i][k].target = calls[i][m].target
             /\ calls[i][k].what = calls[i][m].what ) => k = m
      /\ \A k \in 1..Len(calls[i]) :
           calls[i][k].ok =>
             CASE calls[i][k].op = "insert" /\ calls[i][k].target = "validation_issues" ->
                    Len(RowsBy(validation_issues, i)) = Len(local[i].allIssues)
               [] calls[i][k].op = "insert" /\ calls[i][k].target = "bom_items" ->
                    Len(RowsBy(bom_items, i)) = Len(local[i].bomItems)
               [] calls[i][k].op = "insert" /\ calls[i][k].target = "bom_corrections" ->
                    Len(RowsBy(bom_corrections, i)) = 1
               [] calls[i][k].op = "upload" ->
                    /\ calls[i][k].key \in DOMAIN corrected_files
                    /\ corrected_files[calls[i][k].key].by = i
               [] OTHER -> TRUE

\* C8 witness: an invocation has ended after a failed call that followed a
\* successful insert, and the inserted rows are still in the table
C8_Witness ==
  /\ mode = "handler"
  /\ \E i \in Invocations :
       /\ pc[i] = "done"
       /\ \E k, m \in 1..Len(calls[i]) :
            /\ k < m
            /\ calls[i][k].op = "insert" /\ calls[i][k].ok
            /\ ~calls[i][m].ok
       /\ Len(RowsBy(validation_issues, i)) > 0

\* C9: every row an invocation inserts carries the checkId of its own
\* request, every bom_checks update it issues addresses that id, and the
\* figures stored on a completed check are those of its own file under the
\* reference files (or under none, when the reference query failed).
C9_NoSharedState ==
  mode = "handler" =>
    /\ \A t \in {validation_issues, bom_items, bom_corrections} :
         \A k \in 1..Len(t) : t[k].row.check_id = request[t[k].by].checkId
    /\ \A i \in Invocations :
         \A k \in 1..Len(calls[i]) :
           (calls[i][k].op = "update" /\ calls[i][k].target = "bom_checks")
             => calls[i][k].key = request[i].checkId
    /\ \A c \in CheckIds :
         bom_checks[c].status = "completed" =>
           \E refs \in BOOLEAN :
             LET fig == Figures[bom_uploads[bom_checks[c].file_path]][refs]
             IN  /\ bom_checks[c].total_entries = fig.entries
                 /\ bom_checks[c].issues_found = fig.issues
                 /\ bom_checks[c].issues_corrected = fig.corrected
                 /\ ClaimedScore(bom_checks[c].quality_score, fig.issues, fig.entries)
    /\ \A c \in CheckIds :
         bom_checks[c].status \in {"processing", "completed"} => \E i \in Invocations : Names(i, c)

\* C9 witness: two invocations for different checks have run interleaved
\* (one inserted its issues first, the other its items first), and both
\* checks are completed
C9_Witness ==
  /\ mode = "handler"
  /\ Names(1, "c1") /\ Names(2, "c2")
  /\ Len(validation_issues) > 1 /\ Len(bom_items) > 1
  /\ validation_issues[1].by = 1 /\ validation_issues[Len(validation_issues)].by = 2
  /\ bom_items[1].by = 2 /\ bom_items[Len(bom_items)].by = 1
  /\ bom_checks["c1"].status = "completed" /\ bom_checks["c2"].status = "completed"

\* C10 (as stated, read for runs in which no database or storage call
\* failed): once every invocation for a check has ended and the record is
\* 'completed', bom_items holds total_entries rows of that check,
\* validation_issues holds issues_found rows, and bom_corrections holds one.
C10_ProcessedOnce ==
  \A c \in CheckIds :
    ( /\ mode = "handler"
      /\ faults = 0
      /\ bom_checks[c].status = "completed"
      /\ \A i \in Invocations : Names(i, c) => pc[i] = "done" )
    => /\ Len(RowsOf(bom_items, c)) = bom_checks[c].total_entries
       /\ Len(RowsOf(validation_issues, c)) = bom_checks[c].issues_found
       /\ Len(RowsOf(bom_corrections, c)) = 1

\* ------------------------------------------------------------------------
\* BomCheck page (src/pages/BomCheck.tsx): choosing a file, handleUpload with
\* its two awaited requests and its completion timer, resetForm
\* ------------------------------------------------------------------------

MaxUploads == 2     \* runs of handleUpload that get past its first guard
MaxAlerts == 1      \* dialogs about a wrong file type

Null == [null |-> TRUE]

N_bomCsv == <<"a",".","c","s","v">>
N_bomXls == <<"B",".","X","L","S">>
N_notes == <<"n",".","t","x","t">>
E_csv == <<".","c","s","v">>
E_xlsx == <<".","x","l","s","x">>
E_xls == <<".","x","l","s">>

\* the files a user can pick or drop
Files == { [name |-> N_bomCsv], [name |-> N_bomXls], [name |-> N_notes] }

validTypes == { E_csv, E_xlsx, E_xls }

InvalidFileAlert == "Please upload a valid BOM file (.csv, .xlsx, or .xls)"
FailedUploadAlert == "Failed to upload BOM. Please try again."

\* String.prototype.lastIndexOf, zero-based, -1 when absent
LastIndexOf(s, ch) ==
  LET hits == { i \in 1..Len(s) : s[i] = ch }
  IN  IF hits = {} THEN -1 ELSE (CHOOSE i \in hits : \A j \in hits : j <= i) - 1

\* String.prototype.substring(start): a negative start counts as 0
Substring(s, start) == SubSeq(s, (IF start < 0 THEN 0 ELSE start) + 1, Len(s))

\* name.toLowerCase().substring(name.lastIndexOf('.'))
FileExtension(name) == Substring(toLowerCase(name), LastIndexOf(name, "."))

\* file.name.split('.').pop()
FileExt(name) == LET parts == SplitOn(name, ".") IN parts[Len(parts)]

\* handleUpload is not running
NoRun == [pc |-> "idle"]

InitialPage(user) ==
  [ user |-> user, file |-> Null, uploading |-> FALSE, validationResult |-> Null,
    alerts |-> << >>, timers |-> {}, run |-> NoRun, now |-> 1, attempts |-> << >> ]

\* id the database gives the record inserted by the k-th run of handleUpload
UploadId(k) == "n" \o ToString(k)

\* the record handleUpload inserts
ProcessingCheck(user, file) ==
  [ user_id |-> user.id, file_name |-> file.name, status |-> "processing",
    issues_found |-> 0, issues_corrected |-> 0, quality_score |-> 0 ]

mockIssues == << "Missing Part Number", "Non-standard Unit", "Duplicate Entry" >>

\* Math.round of a non-negative quotient n / d
RoundDiv(n, d) == (2 * n + d) \div (2 * d)

\* the figures the completion timer reports
MockFigures ==
  LET issuesFound == Len(mockIssues)
      issuesCorrected == 1
  IN  [ issuesFound |-> issuesFound, issuesCorrected |-> issuesCorrected,
        qualityScore |-> RoundDiv((issuesFound - (issuesFound - issuesCorrected)) * 100,
                                  issuesFound) ]

\* `if (error) throw error`, with no error at all in place of the test
ThrownNever(error) == FALSE

\* `if (error) throw error`
Thrown(error) == error # Null

\* the catch block of handleUpload
CatchUpload(p) ==
  [p EXCEPT !.alerts = Append(@, FailedUploadAlert), !.uploading = FALSE]

\* handleUpload has returned: its run is recorded
Returned(p, uploadError, dbError) ==
  [p EXCEPT !.run = NoRun,
            !.attempts = Append(@, [uploadError |-> uploadError, dbError |-> dbError])]

InitBomCheck ==
  /\ mode = "BomCheck"
  /\ arg = NoRet
  /\ ret = NoRet
  /\ HandlerIdle
  /\ AppIdleExcept({"page", "bom_files"})
  /\ reference_files = << >>
  /\ bom_uploads = [p \in {} |-> << >>]
  /\ \E user \in {Null, [id |-> "u1"]} : page = InitialPage(user)
  /\ bom_files = [p \in {} |-> Null]

\* setFile(selectedFile) after the check of the file type
SelectFile(p, selectedFile) ==
  IF FileExtension(selectedFile.name) \notin validTypes
    THEN [p EXCEPT !.alerts = Append(@, InvalidFileAlert)]
    ELSE [p EXCEPT !.file = selectedFile, !.validationResult = Null]

\* the Choose File label is rendered while no file is selected and no result shown
handleFileChange ==
  /\ mode = "BomCheck"
  /\ page.validationResult = Null
  /\ page.file = Null
  /\ \E selectedFile \in Files :
       /\ FileExtension(selectedFile.name) \notin validTypes => Len(page.alerts) < MaxAlerts
       /\ page' = SelectFile(page, selectedFile)
  /\ UNCHANGED << pageFrame, storeVars, bom_files >>

\* the drop zone is rendered while no result is shown, also during an upload
handleDrop ==
  /\ mode = "BomCheck"
  /\ page.validationResult = Null
  /\ \E droppedFile \in Files :
       /\ FileExtension(droppedFile.name) \notin validTypes => Len(page.alerts) < MaxAlerts
       /\ page' = SelectFile(page, droppedFile)
  /\ UNCHANGED << pageFrame, storeVars, bom_files >>

\* Cancel (enabled unless uploading) or Upload Another (on the result view)
resetForm ==
  /\ mode = "BomCheck"
  /\ \/ page.validationResult = Null /\ page.file # Null /\ ~page.uploading
     \/ page.validationResult # Null
  /\ page' = [page EXCEPT !.file = Null, !.validationResult = Null]
  /\ UNCHANGED << pageFrame, storeVars, bom_files >>

\* Validate BOM (enabled unless uploading): up to the await of the storage upload
handleUpload ==
  /\ mode = "BomCheck"
  /\ page.validationResult = Null /\ page.file # Null /\ ~page.uploading
  /\ Len(page.attempts) < MaxUploads
  /\ IF page.file = Null \/ page.user = Null
       THEN UNCHANGED page
       ELSE \E now \in {page.now, page.now + 1} :
              page' = [page EXCEPT
                         !.uploading = TRUE,
                         !.now = now,
                         !.run = [ pc |-> "upload", file |-> page.file, uploadError |-> Null,
                                   fileName |-> << page.user.id, now, FileExt(page.file.name) >> ]]
  /\ UNCHANGED << pageFrame, storeVars, bom_files >>

\* the storage upload returns: an existing path or a failed request is an error
UploadReturns ==
  /\ mode = "BomCheck"
  /\ page.run.pc = "upload"
  /\ \E uploadError \in {Null, [message |-> "upload failed"]} :
       /\ uploadError = Null => page.run.fileName \notin DOMAIN bom_files
       /\ bom_files' = IF uploadError = Null
                         THEN [f \in DOMAIN bom_files \cup {page.run.fileName} |->
                                 IF f = page.run.fileName THEN page.run.file ELSE bom_files[f]]
                         ELSE bom_files
       /\ page' = IF Thrown(uploadError)
                    THEN Returned(CatchUpload(page), uploadError, Null)
                    ELSE [page EXCEPT !.run.pc = "insert", !.run.uploadError = uploadError]
  /\ UNCHANGED << pageFrame, storeVars >>

\* the insert with select().single() returns; the record may have been stored
\* although the request reports an error; on success the timer is set
InsertReturns ==
  /\ mode = "BomCheck"
  /\ page.run.pc = "insert"
  /\ \E dbError \in {Null, [message |-> "insert failed"]}, stored \in BOOLEAN :
       /\ dbError = Null => stored
       /\ LET id == UploadId(Len(page.attempts) + 1)
              bomCheck == ProcessingCheck(page.user, page.run.file)
          IN  /\ bom_checks' = IF stored
                                 THEN [c \in DOMAIN bom_checks \cup {id} |->
                                         IF c = id THEN bomCheck ELSE bom_checks[c]]
                                 ELSE bom_checks
              /\ page' = IF Thrown(dbError)
                           THEN Returned(CatchUpload(page), page.run.uploadError, dbError)
                           ELSE Returned([page EXCEPT !.timers = @ \cup
                                            {[ bomCheck |-> id, file |-> page.run.file,
                                               pc |-> "waiting" ]}],
                                         page.run.uploadError, dbError)
  /\ UNCHANGED << pageFrame, bom_files, validation_issues, bom_items,
                  bom_corrections, reference_files, bom_uploads, corrected_files >>

\* the timer fires after 3000 ms: the update of the record, whose error is not read
TimerFires ==
  /\ mode = "BomCheck"
  /\ \E t \in page.timers, ok \in BOOLEAN :
       /\ t.pc = "waiting"
       /\ bom_checks' = IF ok /\ t.bomCheck \in DOMAIN bom_checks
                          THEN [bom_checks EXCEPT ![t.bomCheck] =
                                  [@ EXCEPT !.status = "completed",
                                            !.issues_found = MockFigures.issuesFound,
                                            !.issues_corrected = MockFigures.issuesCorrected,
                                            !.quality_score = MockFigures.qualityScore]]
                          ELSE bom_checks
       /\ page' = [page EXCEPT !.timers = (@ \ {t}) \cup {[t EXCEPT !.pc = "update"]}]
  /\ UNCHANGED << pageFrame, bom_files, validation_issues, bom_items,
                  bom_corrections, reference_files, bom_uploads, corrected_files >>

\* the update has returned: the result is shown
TimerEnds ==
  /\ mode = "BomCheck"
  /\ \E t \in page.timers :
       /\ t.pc = "update"
       /\ page' = [page EXCEPT
                     !.timers = @ \ {t},
                     !.validationResult =
                        [ id |-> t.bomCheck, fileName |-> t.file.name, status |-> "completed",
                          issuesFound |-> MockFigures.issuesFound,
                          issuesCorrected |-> MockFigures.issuesCorrected,
                          qualityScore |-> MockFigures.qualityScore, issues |-> mockIssues ],
                     !.uploading = FALSE]
  /\ UNCHANGED << pageFrame, storeVars, bom_files >>

NextBomCheck ==
  \/ handleFileChange
  \/ handleDrop
  \/ resetForm
  \/ handleUpload
  \/ UploadReturns
  \/ InsertReturns
  \/ TimerFires
  \/ TimerEnds

SpecBomCheck == InitBomCheck /\ [][NextBomCheck]_vars

\* the run of handleUpload that returns in this step, if it ended in an error
FailedRun ==
  /\ Len(page'.attempts) = Len(page.attempts) + 1
  /\ LET a == page'.attempts[Len(page'.attempts)]
     IN  a.uploadError # Null \/ a.dbError # Null

\* the runs of handleUpload that ended in an error
FailedRuns(p) ==
  { k \in 1..Len(p.attempts) : p.attempts[k].uploadError # Null \/ p.attempts[k].dbError # Null }

\* C11: when the storage upload or the insert of the bom_checks record fails
\* during handleUpload, the step in which the run ends shows the alert "Failed
\* to upload BOM. Please try again.", takes uploading from true to false,
\* leaves validationResult null and the selected file in place and sets no
\* timer; no timer ever belongs to a failed run, and no step sets the record
\* of a failed run to "completed".
C11_UploadFailureCaught ==
  [][ /\ FailedRun =>
           /\ page'.alerts = Append(page.alerts, FailedUploadAlert)
           /\ page.uploading /\ ~page'.uploading
           /\ page.validationResult = Null /\ page'.validationResult = Null
           /\ page.file # Null /\ page'.file = page.file
           /\ page'.timers = page.timers
      /\ mode = "BomCheck" =>
           /\ \A t \in page'.timers, k \in FailedRuns(page') : t.bomCheck # UploadId(k)
           /\ \A k \in FailedRuns(page') :
                UploadId(k) \in DOMAIN bom_checks' =>
                  bom_checks'[UploadId(k)].status = "processing" ]_vars

\* a failed upload and a failed insert whose record was stored
C11_Witness ==
  /\ mode = "BomCheck"
  /\ \E k \in FailedRuns(page) : page.attempts[k].uploadError # Null
  /\ \E k \in FailedRuns(page) :
       /\ page.attempts[k].dbError # Null
       /\ UploadId(k) \in DOMAIN bom_checks
  /\ ~page.uploading
  /\ page.file # Null

\* ------------------------------------------------------------------------
\* The demo: the sample BoM offered for download (src/utils/demoData.ts)
\* validated against the built-in terminology table
\* ------------------------------------------------------------------------

MaxDemoWords == 3   \* tokens in a field built from the demo vocabulary

S_Assembly == <<"A","s","s","e","m","b","l","y">>
S_Main == <<"M","a","i","n">>
S_Unit == <<"U","n","i","t">>
S_Blade3 == <<"B","l","a","d","e"," ","3">>
S_Description == <<"D","e","s","c","r","i","p","t","i","o","n">>

sampleBomCSV ==
  <<"P","a","r","t"," ","N","u","m","b","e","r",",","D","e","s","c","r","i","p","t","i","o","n",",","Q","u","a","n","t","i","t","y",",","M","a","t","e","r","i","a","l",",","S","u","p","p","l","i","e","r">> \o <<"\n">> \o
  <<"S","E","N","-","B","L","A","D","E","-","0","0","1",",","B","l","a","d","3"," ","A","s","s","e","m","b","l","y",",","3",",","C","a","r","b","o","n"," ","F","i","b","r",",","W","i","n","d","T","e","c","h"," ","G","m","b","H">> \o <<"\n">> \o
  <<"S","E","N","-","G","R","B","X","-","0","0","2",",","g","r","b","x"," ","M","a","i","n"," ","U","n","i","t",",","1",",","S","t","e","e","l"," ","A","l","l","o","y",",","P","o","w","e","r","D","r","i","v","e"," ","C","o","r","p">> \o <<"\n">> \o
  <<"S","E","N","-","G","E","N","-","0","0","3",",","G","e","n","e","r","a","t","e","r"," ","3",".","5","M","W",",","1",",","C","o","p","p","e","r","/","S","t","e","e","l",",","E","l","e","c","t","r","o","W","i","n","d"," ","L","t","d">> \o <<"\n">> \o
  <<"S","E","N","-","T","O","W","E","R","-","0","0","4",",","T","o","w","e","r"," ","S","e","c","t","o","n"," ","B","a","s","e",",","1",",","S","t","r","u","c","t","u","r","a","l"," ","S","t","e","e","l",",","S","t","e","e","l","W","o","r","k","s"," ","A","G">> \o <<"\n">> \o
  <<"S","E","N","-","N","A","C","E","L","L","E","-","0","0","5",",","N","a","c","e","l"," ","H","o","u","s","i","n","g",",","1",",","F","i","b","e","r","g","l","a","s","s",",","C","o","m","p","o","s","i","t","e","s","P","r","o">> \o <<"\n">> \o
  <<"S","E","N","-","R","O","T","O","R","-","0","0","6",",","R","o","t","o","r"," ","H","u","b"," ","A","s","s","m","b","l","y",",","1",",","C","a","s","t"," ","I","r","o","n",",","M","e","t","a","l","C","a","s","t"," ","I","n","d","u","s","t","r","i","e","s">> \o <<"\n">> \o
  <<"S","E","N","-","C","T","R","L","-","0","0","7",",","C","o","n","t","r","o","l"," ","S","y","s","t","m"," ","U","n","i","t",",","1",",","E","l","e","c","t","r","o","n","i","c","s",",","A","u","t","o","C","o","n","t","r","o","l"," ","S","y","s","t","e","m","s">> \o <<"\n">> \o
  <<"S","E","N","-","B","R","A","K","E","-","0","0","8",",","B","r","a","k","i","n","g"," ","S","y","t","e","m",",","2",",","S","t","e","e","l","/","H","y","d","r","a","u","l","i","c",",","S","a","f","e","t","y","F","i","r","s","t"," ","G","m","b","H">>

DemoVocabulary == { S_Blad3, S_grbx, S_Assembly, S_Main, S_Unit }

RECURSIVE DemoTexts(_)
DemoTexts(n) ==
  IF n = 1 THEN DemoVocabulary
  ELSE DemoTexts(n - 1) \cup { t \o << " " >> \o w : t \in DemoTexts(n - 1), w \in DemoVocabulary }

\* the rows of the sample file as the function parses them
SampleEntries == parseBoMFile(sampleBomCSV)

\* the sample rows, and rows with one field over the demo vocabulary
DemoRows ==
  { SampleEntries[i] : i \in 1..Len(SampleEntries) }
    \cup { << << f, t >> >> : f \in {S_Description, S_material}, t \in DemoTexts(MaxDemoWords) }

InitDemo ==
  /\ mode = "demo"
  /\ \E entry \in DemoRows :
       arg = [heap |-> [entry |-> entry, dict |-> buildTerminologyDict(<< >>)]]
  /\ ret = NoRet
  /\ HandlerIdle
  /\ AppIdle
  /\ reference_files = << >>
  /\ bom_uploads = [p \in {} |-> << >>]

CallDemo ==
  /\ mode = "demo"
  /\ ret = NoRet
  /\ ret' = validateBomEntry(arg.heap)
  /\ UNCHANGED << mode, arg, handlerVars, storeVars, appVars >>

SpecDemo == InitDemo /\ [][CallDemo]_vars

\* what the demo promises for one token
DemoCorrection(token) ==
  IF token = S_Blad3 THEN S_Blade3
  ELSE IF token = S_grbx THEN S_gearbox
  ELSE token

\* the demo errors among the tokens, as issues without their description
DemoIssues(tokens) ==
  LET errors == SelectSeq(tokens, LAMBDA t : t \in {S_Blad3, S_grbx})
  IN  [j \in 1..Len(errors) |->
         [type |-> "terminology", severity |-> "medium", original |-> errors[j],
          suggestion |-> DemoCorrection(errors[j]), autoCorrected |-> TRUE]]

\* fields of the input row that hold a demo error
DemoFields(entry) ==
  { i \in 1..Len(entry) : \E t \in {S_Blad3, S_grbx} :
       \E j \in 1..Len(SplitWs(entry[i][2])) : SplitWs(entry[i][2])[j] = t }

\* C12: with the built-in terminology table, in every field that contains
\* the token 'Blad3' or 'grbx' each such token is recorded as one
\* auto-corrected terminology issue suggesting 'Blade 3' resp. 'gearbox', and
\* (for the demo vocabulary, whose other words no table knows) the corrected
\* field is the tokens with these replacements joined by single spaces; the
\* sample rows' descriptions 'Blad3 Assembly' and 'grbx Main Unit' become
\* 'Blade 3 Assembly' and 'gearbox Main Unit'.
C12_DemoErrorsCorrected ==
  (mode = "demo" /\ ret # NoRet) =>
    LET entry == arg.heap["entry"]
        corrected == ret.heap[ret.corrected]
    IN  /\ \A i \in DemoFields(entry) :
             LET field == entry[i][1]
                 tokens == SplitWs(entry[i][2])
                 demo == SelectSeq(FieldIssues(ret.issues, field, {"terminology"}),
                                   LAMBDA x : x.original \in {S_Blad3, S_grbx})
             IN  /\ demo = DemoIssues(tokens)
                 /\ (\A j \in 1..Len(tokens) : tokens[j] \in DemoVocabulary)
                      => Get(corrected, field)
                           = Join([j \in 1..Len(tokens) |-> DemoCorrection(tokens[j])], << " " >>)
        /\ Get(entry, S_Description) = S_Blad3 \o << " " >> \o S_Assembly
             => Get(corrected, S_Description) = S_Blade3 \o << " " >> \o S_Assembly
        /\ Get(entry, S_Description) = S_grbx \o << " " >> \o S_Main \o << " " >> \o S_Unit
             => Get(corrected, S_Description)
                  = S_gearbox \o << " " >> \o S_Main \o << " " >> \o S_Unit

\* the first sample row, whose description is 'Blad3 Assembly', has been
\* validated
C12_Witness ==
  /\ mode = "demo" /\ ret # NoRet
  /\ Len(SampleEntries) = 8
  /\ arg.heap["entry"] = SampleEntries[1]
  /\ Get(arg.heap["entry"], S_Description) = S_Blad3 \o << " " >> \o S_Assembly
  /\ DemoFields(arg.heap["entry"]) # {}

\* ------------------------------------------------------------------------
\* Signup in the database: the triggers on auth.users
\* (sync_role_to_app_metadata, handle_new_user) and the one-off sync of the
\* roles of existing users
\* ------------------------------------------------------------------------

MaxSignups == 3     \* users who sign up after the migrations

\* jsonb `a || b` on objects: the keys of both, b's value where both have one
JsonbConcat(a, b) ==
  [k \in DOMAIN a \cup DOMAIN b |-> IF k \in DOMAIN b THEN b[k] ELSE a[k]]

\* jsonb `a ? key`
JsonbHas(a, key) == key \in DOMAIN a

\* COALESCE(a ->> key, default)
JsonbTextOr(a, key, default) == IF key \in DOMAIN a THEN a[key] ELSE default

\* BEFORE INSERT ON auth.users FOR EACH ROW
sync_role_to_app_metadata(new) ==
  IF JsonbHas(new.raw_user_meta_data, "role")
    THEN [new EXCEPT !.raw_app_meta_data =
            JsonbConcat(@, [role |-> new.raw_user_meta_data["role"]])]
    ELSE new

\* handle_new_user, the row it inserts into profiles
NewProfile(new) ==
  [ id |-> new.id, email |-> new.email,
    full_name |-> JsonbTextOr(new.raw_user_meta_data, "full_name", "NULL"),
    role |-> JsonbTextOr(new.raw_user_meta_data, "role", "user") ]

\* handle_new_user, its UPDATE of the row of auth.users
WithRoleInUserMetadata(row) ==
  [row EXCEPT !.raw_user_meta_data =
     JsonbConcat(@, [role |-> JsonbTextOr(row.raw_user_meta_data, "role", "user")])]

\* the DO block: the role of every profile copied to its user's app metadata
SyncExistingRoles(users, profs) ==
  [id \in DOMAIN users |->
     IF id \in DOMAIN profs
       THEN [users[id] EXCEPT !.raw_app_meta_data = JsonbConcat(@, [role |-> profs[id].role])]
       ELSE users[id]]

\* the row the auth service submits for a signup with the given options.data
NewUser(id, data) ==
  [ id |-> id, email |-> id, raw_user_meta_data |-> data,
    raw_app_meta_data |-> [provider |-> "email"] ]

\* what a client can pass as options.data of auth.signUp
UserMetadata ==
  { [full_name |-> "A"],
    [full_name |-> "A", role |-> "user"],
    [full_name |-> "A", role |-> "admin"],
    [role |-> "admin"],
    [full_name |-> "admin"] }

\* users and profiles before the migration: an administrator appointed by
\* the operator and an ordinary user
ExistingUsers ==
  [id \in {"a0", "e0"} |-> NewUser(id, [full_name |-> id])]

ExistingProfiles ==
  [id \in {"a0", "e0"} |->
     [id |-> id, email |-> id, full_name |-> id, role |-> IF id = "a0" THEN "admin" ELSE "user"]]

SignupId(k) == "u" \o ToString(k)

InitSignup ==
  /\ mode = "signup"
  /\ arg = NoRet
  /\ ret = NoRet
  /\ HandlerIdle
  /\ AppIdleExcept({"auth_users", "profiles"})
  /\ reference_files = << >>
  /\ bom_uploads = [p \in {} |-> << >>]
  /\ auth_users = SyncExistingRoles(ExistingUsers, ExistingProfiles)
  /\ profiles = ExistingProfiles

\* one signup: the BEFORE INSERT trigger, the insert, then handle_new_user,
\* all in the transaction of the insert
SignUp ==
  /\ mode = "signup"
  /\ Cardinality(DOMAIN auth_users) < Cardinality(DOMAIN ExistingUsers) + MaxSignups
  /\ \E data \in UserMetadata :
       LET id == SignupId(Cardinality(DOMAIN auth_users) - Cardinality(DOMAIN ExistingUsers) + 1)
           new == sync_role_to_app_metadata(NewUser(id, data))
       IN  /\ profiles' = [p \in DOMAIN profiles \cup {id} |->
                             IF p = id THEN NewProfile(new) ELSE profiles[p]]
           /\ auth_users' = [u \in DOMAIN auth_users \cup {id} |->
                               IF u = id THEN WithRoleInUserMetadata(new) ELSE auth_users[u]]
  /\ UNCHANGED authFrame

SpecSignup == InitSignup /\ [][SignUp]_vars

\* users who signed up themselves
SignedUp == DOMAIN auth_users \ DOMAIN ExistingUsers

\* C13 (as stated): whatever user metadata the users who sign up supply, none
\* of them has the role 'admin' in raw_app_meta_data.
C13_RoleNotUserSupplied ==
  mode = "signup" =>
    \A u \in SignedUp :
      JsonbTextOr(auth_users[u].raw_app_meta_data, "role", "none") # "admin"

\* ------------------------------------------------------------------------
\* Row-level security of standards_rules, bom_items and bom_corrections:
\* the policies the migrations leave in force and the decision they give
\* ------------------------------------------------------------------------

CreatePolicy(name, table, cmd, using, check) ==
  [ op |-> "create", name |-> name, table |-> table, cmd |-> cmd,
    using |-> using, check |-> check ]

DropPolicy(name, table) ==
  [ op |-> "drop", name |-> name, table |-> table, cmd |-> "none",
    using |-> "none", check |-> "none" ]

\* add_advanced_features_schema.sql, the policies of the three tables
AdvancedFeaturesSchema ==
  << CreatePolicy("Users can view own bom items", "bom_items", "SELECT", "owns check", "none"),
     CreatePolicy("Users can insert own bom items", "bom_items", "INSERT", "none", "owns check"),
     CreatePolicy("Anyone can view active rules", "standards_rules", "SELECT", "true", "none"),
     CreatePolicy("Only admins can insert rules", "standards_rules", "INSERT",
                  "none", "profile is admin"),
     CreatePolicy("Only admins can update rules", "standards_rules", "UPDATE",
                  "profile is admin", "profile is admin"),
     CreatePolicy("Users can view own corrections", "bom_corrections", "SELECT",
                  "owns check", "none"),
     CreatePolicy("Users can insert own corrections", "bom_corrections", "INSERT",
                  "none", "owns check"),
     CreatePolicy("Users can update own corrections", "bom_corrections", "UPDATE",
                  "owns check", "owns check") >>

\* "Fix All Remaining Recursive RLS Policies", the policies of standards_rules
FixRemainingRecursivePolicies ==
  << DropPolicy("Only admins can insert rules", "standards_rules"),
     DropPolicy("Only admins can update rules", "standards_rules"),
     CreatePolicy("Only admins can insert rules", "standards_rules", "INSERT",
                  "none", "jwt role is admin"),
     CreatePolicy("Only admins can update rules", "standards_rules", "UPDATE",
                  "jwt role is admin", "jwt role is admin") >>

\* the statements applied in order to a set of policies
RECURSIVE ApplyStatements(_, _)
ApplyStatements(policies, statements) ==
  IF statements = << >> THEN policies
  ELSE ApplyStatements(
         IF statements[1].op = "create"
           THEN policies \cup {statements[1]}
           ELSE { q \in policies :
                    ~(q.name = statements[1].name /\ q.table = statements[1].table) },
         Tail(statements))

\* the policies in force after all migrations
Policies == ApplyStatements({}, AdvancedFeaturesSchema \o FixRemainingRecursivePolicies)

\* EXISTS (SELECT 1 FROM profiles WHERE profiles.id = auth.uid() AND profiles.role = 'admin')
ProfileIsAdmin(ctx, row, db) ==
  \E id \in DOMAIN db.profiles : id = ctx.uid /\ db.profiles[id].role = "admin"

\* (auth.jwt()->>'role')::text = 'admin'; a missing claim gives NULL, not true
JwtRoleIsAdmin(ctx, row, db) ==
  "role" \in DOMAIN ctx.jwt /\ ctx.jwt["role"] = "admin"

\* EXISTS (SELECT 1 FROM bom_checks WHERE bom_checks.id = check_id), any owner
CheckExists(ctx, row, db) ==
  \E id \in DOMAIN db.bom_checks : id = row.check_id

\* EXISTS (SELECT 1 FROM bom_checks WHERE bom_checks.id = check_id
\*         AND bom_checks.user_id = auth.uid())
OwnsCheck(ctx, row, db) ==
  \E id \in DOMAIN db.bom_checks : id = row.check_id /\ db.bom_checks[id].user_id = ctx.uid

\* the value of a policy's USING or WITH CHECK expression on a row
Holds(expr, ctx, row, db) ==
  CASE expr = "true" -> TRUE
    [] expr = "profile is admin" -> ProfileIsAdmin(ctx, row, db)
    [] expr = "jwt role is admin" -> JwtRoleIsAdmin(ctx, row, db)
    [] expr = "owns check" -> OwnsCheck(ctx, row, db)
    [] OTHER -> FALSE

\* row-level security of a table for a command of role authenticated: the
\* permissive policies of the command are OR-ed; with none, nothing passes.
\* USING reads the existing row, WITH CHECK the new one.
Permitted(q) ==
  LET applicable == { p \in Policies : p.table = q.table /\ p.cmd = q.cmd }
  IN  CASE q.cmd = "SELECT" ->
             \E p \in applicable : Holds(p.using, q.ctx, q.old, q.db)
        [] q.cmd = "INSERT" ->
             \E p \in applicable : Holds(p.check, q.ctx, q.new, q.db)
        [] q.cmd = "UPDATE" ->
             /\ \E p \in applicable : Holds(p.using, q.ctx, q.old, q.db)
             /\ \E p \in applicable : Holds(p.check, q.ctx, q.new, q.db)
        [] OTHER -> \E p \in applicable : Holds(p.using, q.ctx, q.old, q.db)

\* the tokens an authenticated request can carry
Jwts ==
  { [sub |-> "x"],
    [sub |-> "x", role |-> "authenticated"],
    [sub |-> "x", role |-> "authenticated", app_role |-> "admin"],
    [sub |-> "x", role |-> "admin"] }

\* rows: the check they refer to (c1 of u1, c2 of u2, or none) and their status
RlsRows == [check_id : {"c1", "c2", "NULL"}, status : {"active", "inactive"}]

Databases ==
  { [ profiles |-> [id \in {"u1", "u2"} |-> [role |-> IF id = a THEN "admin" ELSE "user"]],
      bom_checks |-> [id \in {"c1", "c2"} |-> [user_id |-> IF id = "c1" THEN "u1" ELSE "u2"]] ] :
    a \in {"u1", "none"} }

Queries ==
  [ table : {"standards_rules", "bom_items", "bom_corrections"},
    cmd : {"SELECT", "INSERT", "UPDATE", "DELETE"},
    ctx : [uid : {"u1", "u2"}, jwt : Jwts],
    old : RlsRows, new : RlsRows, db : Databases ]

InitRls ==
  /\ mode = "rls"
  /\ arg \in Queries
  /\ ret = NoRet
  /\ HandlerIdle
  /\ AppIdle
  /\ reference_files = << >>
  /\ bom_uploads = [p \in {} |-> << >>]

CallPermitted ==
  /\ mode = "rls"
  /\ ret = NoRet
  /\ ret' = [permitted |-> Permitted(arg)]
  /\ UNCHANGED << mode, arg, handlerVars, storeVars, appVars >>

SpecRls == InitRls /\ [][CallPermitted]_vars

C15_OwnItemsAndCorrections ==
  (/\ mode = "rls" /\ ret # NoRet
   /\ \/ arg.table = "bom_items" /\ arg.cmd \in {"SELECT", "INSERT"}
      \/ arg.table = "bom_corrections" /\ arg.cmd \in {"SELECT", "INSERT", "UPDATE"}
   /\ ret.permitted) =>
    LET Own(row) == /\ row.check_id \in DOMAIN arg.db.bom_checks
                    /\ arg.db.bom_checks[row.check_id].user_id = arg.ctx.uid
    IN  /\ arg.cmd \in {"SELECT", "UPDATE"} => Own(arg.old)
        /\ arg.cmd \in {"INSERT", "UPDATE"} => Own(arg.new)

\* an UPDATE of a correction of the user's own check is permitted, and the
\* token carries the role 'admin'
C15_Witness ==
  /\ mode = "rls" /\ ret # NoRet
  /\ arg.table = "bom_corrections" /\ arg.cmd = "UPDATE"
  /\ arg.ctx.uid = "u2" /\ arg.old.check_id = "c2" /\ arg.new.check_id = "c2"
  /\ arg.ctx.jwt = [sub |-> "x", role |-> "admin"]
  /\ ret.permitted

\* ------------------------------------------------------------------------
\* AppContent, ProtectedRoute and Sidebar: what is rendered in each state of
\* the auth context and of the navigation
\* ------------------------------------------------------------------------

\* Sidebar: id and admin flag of the entries
navItems ==
  << [id |-> "dashboard", admin |-> FALSE],
     [id |-> "bom-check", admin |-> FALSE],
     [id |-> "doc-check", admin |-> FALSE],
     [id |-> "standards-management", admin |-> FALSE],
     [id |-> "reports", admin |-> FALSE],
     [id |-> "reference-library", admin |-> TRUE] >>

filteredNavItems(isAdmin) == SelectSeq(navItems, LAMBDA item : ~item.admin \/ isAdmin)

\* mutant: the guard for administrators is left out
ProtectedRouteAnyRole(auth, requireAdmin, children) ==
  IF auth.loading THEN {"Loading..."}
  ELSE IF auth.user = Null THEN {"Access Denied"}
  ELSE children

\* ProtectedRoute: what it renders
ProtectedRoute(auth, requireAdmin, children) ==
  IF auth.loading THEN {"Loading..."}
  ELSE IF auth.user = Null THEN {"Access Denied"}
  ELSE IF requireAdmin /\ ~auth.isAdmin THEN {"Admin Access Required"}
  ELSE children

\* AppContent: renderPage
renderPage(a) ==
  CASE a.currentPage = "dashboard" -> {"Dashboard"}
    [] a.currentPage = "bom-check" -> {"BomCheck"}
    [] a.currentPage = "doc-check" -> {"DocCheck"}
    [] a.currentPage = "standards-management" -> {"StandardsManagement"}
    [] a.currentPage = "reports" -> {"ReportGeneration"}
    [] a.currentPage = "reference-library" -> ProtectedRoute(a, TRUE, {"ReferenceLibrary"})
    [] OTHER -> {"Dashboard"}

\* AppContent: the components on screen
AppContent(a) ==
  IF a.user = Null
    THEN (IF a.showLogin THEN {"LoginForm"} ELSE {"SignupForm"})
    ELSE ProtectedRoute(a, FALSE, {"Sidebar"} \cup renderPage(a))

\* what useAuth can return: the context's user, profile, loading and isAdmin
AuthStates ==
  [ user : {Null, [id |-> "u1"]},
    profile : {Null, [role |-> "user"], [role |-> "admin"]},
    loading : BOOLEAN,
    isAdmin : BOOLEAN ]

WithAuth(a, auth) ==
  [a EXCEPT !.user = auth.user, !.profile = auth.profile,
            !.loading = auth.loading, !.isAdmin = auth.isAdmin]

InitApp ==
  /\ mode = "app"
  /\ arg = NoRet
  /\ ret = NoRet
  /\ HandlerIdle
  /\ AppIdleExcept({"app"})
  /\ reference_files = << >>
  /\ bom_uploads = [p \in {} |-> << >>]
  /\ app = [ user |-> Null, profile |-> Null, loading |-> TRUE, isAdmin |-> FALSE,
             showLogin |-> TRUE, currentPage |-> "dashboard" ]

\* the auth context changes: session found, sign in, profile loaded, sign out
AuthStateChange ==
  /\ mode = "app"
  /\ \E auth \in AuthStates : app' = WithAuth(app, auth)
  /\ app' # app
  /\ UNCHANGED navFrame

\* onToggleForm of the login and signup forms
ToggleForm ==
  /\ mode = "app"
  /\ AppContent(app) \cap {"LoginForm", "SignupForm"} # {}
  /\ app' = [app EXCEPT !.showLogin = ~@]
  /\ UNCHANGED navFrame

\* a click on an entry the sidebar offers
SidebarNavigate ==
  /\ mode = "app"
  /\ "Sidebar" \in AppContent(app)
  /\ \E i \in 1..Len(filteredNavItems(app.isAdmin)) :
       app' = [app EXCEPT !.currentPage = filteredNavItems(app.isAdmin)[i].id]
  /\ UNCHANGED navFrame

\* the quick actions of the dashboard
DashboardNavigate ==
  /\ mode = "app"
  /\ "Dashboard" \in AppContent(app)
  /\ \E target \in {"standards-management", "bom-check", "doc-check"} :
       app' = [app EXCEPT !.currentPage = target]
  /\ UNCHANGED navFrame

NextApp ==
  \/ AuthStateChange
  \/ ToggleForm
  \/ SidebarNavigate
  \/ DashboardNavigate

SpecApp == InitApp /\ [][NextApp]_vars

\* C16: in every state reached by navigation and changes of the auth state,
\* the ReferenceLibrary page is on screen only if loading is false, a user is
\* signed in and isAdmin is true; ProtectedRoute renders its children exactly
\* when not loading, a user exists and requireAdmin implies isAdmin; and the
\* sidebar's entries include 'reference-library' exactly for administrators.
C16_AdminLibraryRestricted ==
  mode = "app" =>
    /\ "ReferenceLibrary" \in AppContent(app)
         => (~app.loading /\ app.user # Null /\ app.isAdmin)
    /\ \A requireAdmin \in BOOLEAN :
         (ProtectedRoute(app, requireAdmin, {"children"}) = {"children"})
           <=> (~app.loading /\ app.user # Null /\ (requireAdmin => app.isAdmin))
    /\ (\E i \in 1..Len(filteredNavItems(app.isAdmin)) :
          filteredNavItems(app.isAdmin)[i].id = "reference-library") <=> app.isAdmin

\* the current page is still 'reference-library' while a signed-in user who
\* is no administrator looks at the application
C16_Witness ==
  /\ mode = "app"
  /\ app.currentPage = "reference-library"
  /\ app.user # Null /\ ~app.loading /\ ~app.isAdmin
  /\ AppContent(app) = {"Sidebar", "Admin Access Required"}

\* ------------------------------------------------------------------------
\* SignupForm (src/components/Auth/SignupForm.tsx): typing into the four
\* inputs with their inline validation, and handleSubmit
\* ------------------------------------------------------------------------

UpperLetters ==
  { "A","B","C","D","E","F","G","H","I","J","K","L","M",
    "N","O","P","Q","R","S","T","U","V","W","X","Y","Z" }

LowerLetters == { LowerChar(c) : c \in UpperLetters }

\* /[A-Z]/.test, /[a-z]/.test, /[0-9]/.test
HasUpper(s) == \E i \in 1..Len(s) : s[i] \in UpperLetters
HasLower(s) == \E i \in 1..Len(s) : s[i] \in LowerLetters
HasDigit(s) == \E i \in 1..Len(s) : IsDigit(s[i])

\* [^\s@]+ matches the whole of s
NoSpaceNoAt(s) == Len(s) > 0 /\ \A i \in 1..Len(s) : ~IsSpace(s[i]) /\ s[i] # "@"

\* /^[^\s@]+@[^\s@]+\.[^\s@]+$/.test
EmailRegex(s) ==
  \E at \in 1..Len(s), dot \in 1..Len(s) :
    /\ s[at] = "@" /\ s[dot] = "." /\ at < dot
    /\ NoSpaceNoAt(SubSeq(s, 1, at - 1))
    /\ NoSpaceNoAt(SubSeq(s, at + 1, dot - 1))
    /\ NoSpaceNoAt(SubSeq(s, dot + 1, Len(s)))

\* the browser's check of <input type="email" required>: something@something
EmailInputValid(s) ==
  \E at \in 1..Len(s) :
    /\ s[at] = "@"
    /\ NoSpaceNoAt(SubSeq(s, 1, at - 1))
    /\ NoSpaceNoAt(SubSeq(s, at + 1, Len(s)))

\* errors.field = message, or delete errors.field for the message ""
SetError(errors, field, message) ==
  IF message = ""
    THEN [k \in DOMAIN errors \ {field} |-> errors[k]]
    ELSE [k \in DOMAIN errors \cup {field} |-> IF k = field THEN message ELSE errors[k]]

\* validateField: the message for a value, "" when the field is in order
FieldMessage(field, value, password) ==
  CASE field = "fullName" ->
         IF trim(value) = << >> THEN "Full name is required"
         ELSE IF Len(trim(value)) < 2 THEN "Please enter your full name"
         ELSE ""
    [] field = "email" ->
         IF value = << >> THEN "Email is required"
         ELSE IF ~EmailRegex(value) THEN "Please enter a valid email"
         ELSE ""
    [] field = "password" ->
         IF value = << >> THEN "Password is required"
         ELSE IF Len(value) < 6 THEN "Password must be at least 6 characters"
         ELSE IF ~HasUpper(value) THEN "Include at least one uppercase letter"
         ELSE IF ~HasLower(value) THEN "Include at least one lowercase letter"
         ELSE IF ~HasDigit(value) THEN "Include at least one number"
         ELSE ""
    [] field = "confirmPassword" ->
         IF value = << >> THEN "Please confirm your password"
         ELSE IF value # password THEN "Passwords do not match"
         ELSE ""

\* validateField, from the fieldErrors and the password of the current render
validateField(f, field, value) ==
  SetError(f.fieldErrors, field, FieldMessage(field, value, f.password))

\* what can be typed into the inputs
FullNames == { << >>, << " ", "A" >>, << "A", "l" >> }
Emails == { << >>, << "a", "@", "b" >>, << "a", "@", "b", ".", "c" >> }
Passwords ==
  { << >>, << "A", "b", "1" >>, << "a", "b", "c", "d", "e", "f" >>,
    << "A", "b", "c", "d", "e", "1" >> }

InitSignupForm ==
  /\ mode = "SignupForm"
  /\ arg = NoRet
  /\ ret = NoRet
  /\ HandlerIdle
  /\ AppIdleExcept({"signupForm"})
  /\ reference_files = << >>
  /\ bom_uploads = [p \in {} |-> << >>]
  /\ signupForm = [ fullName |-> << >>, email |-> << >>, password |-> << >>,
                    confirmPassword |-> << >>, error |-> "", success |-> FALSE,
                    loading |-> FALSE, fieldErrors |-> [k \in {} |-> ""],
                    signUp |-> Null, toggled |-> FALSE ]

ChangeFullName ==
  /\ mode = "SignupForm"
  /\ \E value \in FullNames :
       signupForm' = [signupForm EXCEPT !.fullName = value,
                        !.fieldErrors = validateField(signupForm, "fullName", value)]
  /\ UNCHANGED signupFrame

ChangeEmail ==
  /\ mode = "SignupForm"
  /\ \E value \in Emails :
       signupForm' = [signupForm EXCEPT !.email = value,
                        !.fieldErrors = validateField(signupForm, "email", value)]
  /\ UNCHANGED signupFrame

ChangePassword ==
  /\ mode = "SignupForm"
  /\ \E value \in Passwords :
       signupForm' = [signupForm EXCEPT !.password = value,
                        !.fieldErrors = validateField(signupForm, "password", value)]
  /\ UNCHANGED signupFrame

ChangeConfirmPassword ==
  /\ mode = "SignupForm"
  /\ \E value \in Passwords :
       signupForm' = [signupForm EXCEPT !.confirmPassword = value,
                        !.fieldErrors = validateField(signupForm, "confirmPassword", value)]
  /\ UNCHANGED signupFrame

\* the browser lets the form submit: required inputs filled, email well-formed
CanSubmit(f) ==
  /\ ~(f.loading \/ f.success)
  /\ f.fullName # << >> /\ f.email # << >> /\ f.password # << >> /\ f.confirmPassword # << >>
  /\ EmailInputValid(f.email)

\* handleSubmit up to the await of signUp. Its four validateField calls all
\* start from the fieldErrors of the current render, so the last one's
\* setFieldErrors is the one that stays.
SubmitSignup ==
  /\ mode = "SignupForm"
  /\ CanSubmit(signupForm)
  /\ LET f == [signupForm EXCEPT
                 !.error = "", !.success = FALSE,
                 !.fieldErrors = validateField(signupForm, "confirmPassword",
                                               signupForm.confirmPassword)]
     IN  signupForm' =
           IF f.password # f.confirmPassword
             THEN [f EXCEPT !.error = "Passwords do not match"]
           ELSE IF Len(f.password) < 6
             THEN [f EXCEPT !.error = "Password must be at least 6 characters"]
           ELSE IF Len(trim(f.fullName)) < 2
             THEN [f EXCEPT !.error = "Please enter your full name"]
           ELSE [f EXCEPT !.loading = TRUE,
                          !.signUp = [email |-> f.email, password |-> f.password,
                                      fullName |-> f.fullName]]
  /\ UNCHANGED signupFrame

\* signUp returns
SignUpReturns ==
  /\ mode = "SignupForm"
  /\ signupForm.signUp # Null
  /\ \E error \in {Null, [message |-> "User already registered"]} :
       signupForm' =
         IF error # Null
           THEN [signupForm EXCEPT !.error = error.message, !.loading = FALSE, !.signUp = Null]
           ELSE [signupForm EXCEPT !.success = TRUE, !.loading = FALSE, !.signUp = Null]
  /\ UNCHANGED signupFrame

\* 2000 ms after a success: onToggleForm
ToggleAfterSuccess ==
  /\ mode = "SignupForm"
  /\ signupForm.success /\ ~signupForm.toggled
  /\ signupForm' = [signupForm EXCEPT !.toggled = TRUE]
  /\ UNCHANGED signupFrame

NextSignupForm ==
  \/ ChangeFullName
  \/ ChangeEmail
  \/ ChangePassword
  \/ ChangeConfirmPassword
  \/ SubmitSignup
  \/ SignUpReturns
  \/ ToggleAfterSuccess

SpecSignupForm == InitSignupForm /\ [][NextSignupForm]_vars

\* the rules of the inline validation, for the four fields of the form
InlineRulesPass(f) ==
  /\ Len(trim(f.fullName)) >= 2
  /\ EmailRegex(f.email)
  /\ Len(f.password) >= 6 /\ HasUpper(f.password) /\ HasLower(f.password) /\ HasDigit(f.password)
  /\ f.confirmPassword = f.password

\* C17 (as stated): a step of handleSubmit calls signUp only if the full name
\* has at least 2 non-blank characters, the email matches the inline pattern,
\* the password has at least 6 characters with an uppercase letter, a
\* lowercase letter and a digit, and the confirmation equals the password.
C17_SubmitValidates ==
  [][ (mode = "SignupForm" /\ signupForm.signUp = Null /\ signupForm'.signUp # Null)
        => InlineRulesPass(signupForm) ]_vars

\* ------------------------------------------------------------------------
\* StandardsManagement (the rule form): the modal, validateForm, handleSubmit
\* and the table standards_rules with its sample rules
\* ------------------------------------------------------------------------

R_101 == <<"1","0","1">>
R_B1 == <<"B","-","1">>
R_b1 == <<"b","-","1">>
N_blank == << " ", " ", " " >>
N_ab == <<"a","b">>
N_abc == <<"a","b","c">>
N_PartNumberFormatting ==
  <<"P","a","r","t"," ","N","u","m","b","e","r"," ","F","o","r","m","a","t","t","i","n","g">>
D_blank == << " ", " ", " ", " ", " ", " ", " ", " ", " ", " " >>
D_short == <<"t","o","o"," ","s","h","o","r","t">>
D_long == <<"l","o","n","g"," ","e","n","o","u","g","h">>
D_PartNumberFormatting ==
  <<"E","n","s","u","r","e","s"," ","a","l","l"," ","p","a","r","t"," ","n","u","m","b","e","r","s"," ","f","o","l","l","o","w"," ","t","h","e">> \o
  <<" ","[","T","Y","P","E","]","-","[","I","D","]","-","[","R","E","V","]"," ","f","o","r","m","a","t",".">>
X_correct == <<"P","C","B","-","1","0","3","4","5","-","0","2">>
X_incorrect == <<"P","C","B","1","0","3","4","5","_","r","e","v","2">>

\* the first of the sample rules the schema inserts
SampleRule ==
  [ id |-> "r1", rule_id |-> R_101, name |-> N_PartNumberFormatting, category |-> "naming",
    description |-> D_PartNumberFormatting, status |-> "active",
    examples |-> [correct |-> X_correct, incorrect |-> X_incorrect] ]

\* /^[A-Z]+-\d+$/.test
RuleIdRegex(s) ==
  \E h \in 1..Len(s) :
    /\ s[h] = "-"
    /\ h > 1 /\ \A i \in 1..(h - 1) : s[i] \in UpperLetters
    /\ h < Len(s) /\ \A i \in (h + 1)..Len(s) : IsDigit(s[i])

\* mutant: a form that reports its errors and lets the submission pass
validateFormLenient(formData) == [k \in {} |-> ""]

\* validateForm: the errors object it builds
validateForm(formData) ==
  LET rule_id == IF trim(formData.rule_id) = << >> THEN "Rule ID is required"
                 ELSE IF ~RuleIdRegex(formData.rule_id) THEN "Format: XXX-000 (e.g., BOM-001)"
                 ELSE ""
      name == IF trim(formData.name) = << >> THEN "Rule name is required"
              ELSE IF Len(formData.name) < 3 THEN "Name must be at least 3 characters"
              ELSE ""
      description ==
        IF trim(formData.description) = << >> THEN "Description is required"
        ELSE IF Len(formData.description) < 10
          THEN "Please provide a more detailed description"
        ELSE ""
  IN  SetError(SetError(SetError([k \in {} |-> ""], "rule_id", rule_id), "name", name),
               "description", description)

\* formData.approved_materials.split(',').map(m => m.trim()).filter(Boolean)
ApprovedMaterials(text) ==
  LET parts == SplitOn(text, ",")
  IN  SelectSeq([k \in 1..Len(parts) |-> trim(parts[k])], LAMBDA m : m # << >>)

\* handleSubmit: examples
Examples(formData) ==
  LET correct == IF formData.correct_example # << >>
                   THEN [correct |-> formData.correct_example] ELSE [k \in {} |-> << >>]
      incorrect == IF formData.incorrect_example # << >>
                     THEN [incorrect |-> formData.incorrect_example] ELSE [k \in {} |-> << >>]
      approved == IF formData.approved_materials # << >>
                    THEN [approved |-> ApprovedMaterials(formData.approved_materials)]
                    ELSE [k \in {} |-> << >>]
  IN  JsonbConcat(JsonbConcat(correct, incorrect), approved)

\* handleSubmit: ruleData
RuleData(formData) ==
  [ rule_id |-> formData.rule_id, name |-> formData.name, category |-> formData.category,
    description |-> formData.description, status |-> formData.status,
    examples |-> Examples(formData) ]

EmptyFormData ==
  [ rule_id |-> << >>, name |-> << >>, category |-> "general", description |-> << >>,
    status |-> "active", correct_example |-> << >>, incorrect_example |-> << >>,
    approved_materials |-> << >> ]

\* openEditModal: the form filled from a rule
FormDataOf(rule) ==
  [ rule_id |-> rule.rule_id, name |-> rule.name, category |-> rule.category,
    description |-> rule.description, status |-> rule.status,
    correct_example |-> IF "correct" \in DOMAIN rule.examples
                          THEN rule.examples["correct"] ELSE << >>,
    incorrect_example |-> IF "incorrect" \in DOMAIN rule.examples
                            THEN rule.examples["incorrect"] ELSE << >>,
    approved_materials |-> IF "approved" \in DOMAIN rule.examples
                             THEN Join(rule.examples["approved"], << ",", " " >>) ELSE << >> ]

\* what can be typed into the three required inputs
TypedValues(field) ==
  CASE field = "rule_id" -> { << >>, R_b1, R_B1 }
    [] field = "name" -> { N_blank, N_ab, N_abc }
    [] field = "description" -> { D_blank, D_short, D_long }

InitRuleForm ==
  /\ mode = "StandardsManagement"
  /\ arg = NoRet
  /\ ret = NoRet
  /\ HandlerIdle
  /\ AppIdleExcept({"ruleForm", "standards_rules"})
  /\ reference_files = << >>
  /\ bom_uploads = [p \in {} |-> << >>]
  /\ standards_rules = [id \in {"r1"} |-> SampleRule]
  /\ ruleForm = [ rules |-> {}, showModal |-> FALSE, editingRule |-> Null,
                  formData |-> EmptyFormData, fieldErrors |-> [k \in {} |-> ""],
                  fetching |-> TRUE, submitted |-> Null ]

\* fetchRules returns: select('*').order('rule_id')
FetchReturns ==
  /\ mode = "StandardsManagement"
  /\ ruleForm.fetching
  /\ \E ok \in BOOLEAN :
       ruleForm' = [ruleForm EXCEPT
                      !.fetching = FALSE,
                      !.rules = IF ok THEN { standards_rules[id] : id \in DOMAIN standards_rules }
                                ELSE @]
  /\ UNCHANGED << ruleFrame, standards_rules >>

openAddModal ==
  /\ mode = "StandardsManagement"
  /\ ~ruleForm.showModal
  /\ ruleForm' = [ruleForm EXCEPT !.editingRule = Null, !.formData = EmptyFormData,
                                  !.fieldErrors = [k \in {} |-> ""], !.showModal = TRUE,
                                  !.submitted = Null]
  /\ UNCHANGED << ruleFrame, standards_rules >>

openEditModal ==
  /\ mode = "StandardsManagement"
  /\ ~ruleForm.showModal
  /\ \E rule \in ruleForm.rules :
       ruleForm' = [ruleForm EXCEPT !.editingRule = [id |-> rule.id], !.formData = FormDataOf(rule),
                                    !.fieldErrors = [k \in {} |-> ""], !.showModal = TRUE,
                                    !.submitted = Null]
  /\ UNCHANGED << ruleFrame, standards_rules >>

\* the X and Cancel buttons of the modal
closeModal ==
  /\ mode = "StandardsManagement"
  /\ ruleForm.showModal
  /\ ruleForm' = [ruleForm EXCEPT !.showModal = FALSE, !.submitted = Null]
  /\ UNCHANGED << ruleFrame, standards_rules >>

handleFieldChange ==
  /\ mode = "StandardsManagement"
  /\ ruleForm.showModal
  /\ \E field \in {"rule_id", "name", "description"} :
       \E value \in TypedValues(field) :
         ruleForm' = [ruleForm EXCEPT
                        !.formData[field] = value,
                        !.fieldErrors = IF field \in DOMAIN @ /\ @[field] # ""
                                          THEN [@ EXCEPT ![field] = ""] ELSE @,
                        !.submitted = Null]
  /\ UNCHANGED << ruleFrame, standards_rules >>

\* the row a write stores
RuleRow(id, ruleData) ==
  [ id |-> id, rule_id |-> ruleData.rule_id, name |-> ruleData.name,
    category |-> ruleData.category, description |-> ruleData.description,
    status |-> ruleData.status, examples |-> ruleData.examples ]

\* handleSubmit, with the update or insert it awaits: the database carries it
\* out or refuses it (row-level security, rule_id UNIQUE); `submitted` notes
\* the form data of the latest submission and the write it issued
handleSubmit ==
  /\ mode = "StandardsManagement"
  /\ ruleForm.showModal
  /\ \E errors \in { validateForm(ruleForm.formData) } :
       IF DOMAIN errors # {}
         THEN /\ ruleForm' = [ruleForm EXCEPT
                                !.fieldErrors = errors,
                                !.submitted = [formData |-> ruleForm.formData, write |-> Null]]
              /\ UNCHANGED standards_rules
         ELSE \E ok \in BOOLEAN :
                LET write == [ op |-> IF ruleForm.editingRule # Null THEN "update" ELSE "insert",
                               id |-> IF ruleForm.editingRule # Null
                                        THEN ruleForm.editingRule.id ELSE "r2",
                               ruleData |-> RuleData(ruleForm.formData) ]
                IN  /\ ok => \A id \in DOMAIN standards_rules \ {write.id} :
                               standards_rules[id].rule_id # write.ruleData.rule_id
                    /\ ok /\ write.op = "insert" => write.id \notin DOMAIN standards_rules
                    /\ ok /\ write.op = "update" => write.id \in DOMAIN standards_rules
                    /\ standards_rules' =
                         IF ok
                           THEN [id \in DOMAIN standards_rules \cup {write.id} |->
                                   IF id = write.id THEN RuleRow(id, write.ruleData)
                                   ELSE standards_rules[id]]
                           ELSE standards_rules
                    /\ ruleForm' =
                         [ruleForm EXCEPT
                            !.fieldErrors = errors,
                            !.showModal = IF ok THEN FALSE ELSE @,
                            !.fetching = IF ok THEN TRUE ELSE @,
                            !.submitted = [formData |-> ruleForm.formData, write |-> write]]
  /\ UNCHANGED ruleFrame

NextRuleForm ==
  \/ FetchReturns
  \/ openAddModal
  \/ openEditModal
  \/ closeModal
  \/ handleFieldChange
  \/ handleSubmit

SpecRuleForm == InitRuleForm /\ [][NextRuleForm]_vars

\* the three rules of the form, stated on the form data
RuleFormValid(formData) ==
  /\ trim(formData.rule_id) # << >> /\ RuleIdRegex(formData.rule_id)
  /\ trim(formData.name) # << >> /\ Len(formData.name) >= 3
  /\ trim(formData.description) # << >> /\ Len(formData.description) >= 10

\* the fields of the form data that break their rule
FailingFields(formData) ==
  { f \in {"rule_id", "name", "description"} :
      \/ trim(formData[f]) = << >>
      \/ f = "rule_id" /\ ~RuleIdRegex(formData.rule_id)
      \/ f = "name" /\ Len(formData.name) < 3
      \/ f = "description" /\ Len(formData.description) < 10 }

\* C18: handleSubmit issues an insert or update on standards_rules only when
\* rule_id is non-blank and matches ^[A-Z]+-\d+$, name is non-blank with at
\* least 3 characters and description is non-blank with at least 10; any
\* stored row other than the sample rule satisfies the rules; after a submission that fails them no write was issued, the
\* modal is open and fieldErrors holds a message for each failing field.
C18_InvalidRuleNotSubmitted ==
  mode = "StandardsManagement" =>
    /\ \A id \in DOMAIN standards_rules :
         standards_rules[id] # SampleRule => RuleFormValid(standards_rules[id])
    /\ ruleForm.submitted # Null =>
         /\ ruleForm.submitted.write # Null <=> RuleFormValid(ruleForm.submitted.formData)
         /\ ruleForm.submitted.write = Null =>
              /\ ruleForm.showModal
              /\ \A f \in FailingFields(ruleForm.submitted.formData) :
                   f \in DOMAIN ruleForm.fieldErrors /\ ruleForm.fieldErrors[f] # ""
              /\ FailingFields(ruleForm.submitted.formData) # {}

\* the sample rule '101' was opened for editing and submitted unchanged: its
\* rule_id breaks the pattern, nothing is written and the modal stays open
C18_Witness ==
  /\ mode = "StandardsManagement"
  /\ ruleForm.submitted # Null
  /\ ruleForm.submitted.formData = FormDataOf(SampleRule)
  /\ ruleForm.submitted.write = Null
  /\ standards_rules = [id \in {"r1"} |-> SampleRule]
  /\ ruleForm.showModal
  /\ "rule_id" \in DOMAIN ruleForm.fieldErrors

\* ------------------------------------------------------------------------
\* validateBomEntry applied to the row it returned as corrected
\* ------------------------------------------------------------------------

MaxChainWords == 2

S_rotr == <<"r","o","t","r">>
S_towr == <<"t","o","w","r">>
S_nacell == <<"n","a","c","e","l","l">>
S_Hubm == <<"H","u","b","m">>

\* misspellings and abbreviations of the hard-coded table, a spelling error
\* and a word that is in neither table
ChainVocabulary == { S_grbx, S_rotr, S_towr, S_nacell, S_Hubm, S_Blad3, S_teh, S_bolt }

RECURSIVE ChainTexts(_)
ChainTexts(n) ==
  IF n = 0 THEN { << >> }
  ELSE ChainTexts(n - 1)
         \cup { IF t = << >> THEN w ELSE t \o << " " >> \o w :
                  t \in ChainTexts(n - 1), w \in ChainVocabulary }

\* rows with a free-text description, with and without the other required fields
ChainRows ==
  { << << F_description, t >> >> : t \in ChainTexts(MaxChainWords) }
    \cup { << << F_partNumber, S_P1 >>, << F_partName, t >>, << F_description, t >>,
              << F_quantity, S_3 >> >> : t \in ChainTexts(MaxChainWords) }

InitRevalidate ==
  /\ mode = "revalidate"
  /\ \E entry \in ChainRows : arg = [entry |-> entry, dict |-> buildTerminologyDict(<< >>)]
  /\ ret = [first |-> NoRet, second |-> NoRet]
  /\ HandlerIdle
  /\ AppIdle
  /\ reference_files = << >>
  /\ bom_uploads = [p \in {} |-> << >>]

\* validateBomEntry(entry, terminologyDict)
FirstValidate ==
  /\ mode = "revalidate"
  /\ ret.first = NoRet
  /\ ret' = [ret EXCEPT !.first = ValidateRow(arg.entry, arg.dict)]
  /\ UNCHANGED << mode, arg, handlerVars, storeVars, appVars >>

\* validateBomEntry(corrected, terminologyDict) on the row the first call returned
SecondValidate ==
  /\ mode = "revalidate"
  /\ ret.first # NoRet
  /\ ret.second = NoRet
  /\ ret' = [ret EXCEPT !.second = ValidateRow(ret.first.corrected, arg.dict)]
  /\ UNCHANGED << mode, arg, handlerVars, storeVars, appVars >>

NextRevalidate ==
  \/ FirstValidate
  \/ SecondValidate

SpecRevalidate == InitRevalidate /\ [][NextRevalidate]_vars

\* C19: with the terminology map built from the hard-coded table alone,
\* validateBomEntry applied to the corrected row of a first call reports no
\* issue with autoCorrected = true and returns a corrected row equal to its
\* input.
C19_CorrectionIdempotent ==
  (mode = "revalidate" /\ ret.second # NoRet) =>
    /\ \A i \in 1..Len(ret.second.issues) : ~ret.second.issues[i].autoCorrected
    /\ ret.second.corrected = ret.first.corrected

\* ------------------------------------------------------------------------
\* calculateQualityScore: range and monotonicity
\* ------------------------------------------------------------------------

\* r <= q for two numbers
RatLeq(r, q) == r.n * q.d <= q.n * r.d

\* C20: for totalIssues >= 0 and totalEntries >= 1 calculateQualityScore
\* returns a value between 50 and 100 inclusive, is non-increasing in
\* totalIssues for fixed totalEntries, equals 100 exactly when totalIssues = 0
\* and equals 50 for every totalIssues >= 5 * totalEntries; the lower clamp at
\* 0 is never the active bound.
C20_ScoreRange ==
  (mode = "score" /\ ret # NoRet /\ arg.totalEntries >= 1) =>
    /\ RatLeq(Rat(50, 1), ret.score) /\ RatLeq(ret.score, Rat(100, 1))
    /\ \A more \in arg.totalIssues..MaxIssues :
         RatLeq(calculateQualityScore(more, arg.totalEntries), ret.score)
    /\ ret.score = Rat(100, 1) <=> arg.totalIssues = 0
    /\ arg.totalIssues >= 5 * arg.totalEntries => ret.score = Rat(50, 1)
    /\ ret.score = IntMinusRat(100, RatMinInt(RatTimes(Rat(arg.totalIssues, arg.totalEntries),
                                                       10), 50))

\* C20 witness: a score at the cap with more than five issues per row, for
\* three rows
C20_Witness ==
  /\ mode = "score"
  /\ ret # NoRet
  /\ arg.totalEntries = 3
  /\ arg.totalIssues = 16
  /\ ret.score = Rat(50, 1)

\* ------------------------------------------------------------------------
\* The order of the requests one invocation sends to the backing store
\* ------------------------------------------------------------------------

\* the positions of an invocation's requests of one kind
Issued(i, op, target, what) ==
  { k \in 1..Len(calls[i]) :
      calls[i][k].op = op /\ calls[i][k].target = target /\ calls[i][k].what = what }

\* every request of the set `later` comes after some request of `earlier`
After(later, earlier) == \A k \in later : \E j \in earlier : j < k

\* the update to 'processing' precedes the read of the record and the
\* download; the update to 'completed' is the last request and no update to
\* 'failed' follows it
ProcessingFirstCompletedLast(i) ==
  /\ After(Issued(i, "select", "bom_checks", ""), Issued(i, "update", "bom_checks", "processing"))
  /\ After(Issued(i, "download", "bom-uploads", ""),
           Issued(i, "update", "bom_checks", "processing"))
  /\ After(Issued(i, "update", "bom_checks", "completed"),
           Issued(i, "upload", "corrected-files", ""))
  /\ After(Issued(i, "update", "bom_checks", "completed"),
           Issued(i, "insert", "bom_corrections", ""))
  /\ \A k \in Issued(i, "update", "bom_checks", "completed") : k = Len(calls[i])
  /\ \A k \in Issued(i, "update", "bom_checks", "failed") :
       \A j \in Issued(i, "update", "bom_checks", "completed") : k < j

\* C21 as stated: within one invocation the update to 'processing' precedes
\* the read of the record and the download; the update to 'completed' is
\* issued only after the inserts into validation_issues and bom_items, the
\* upload of the corrected file and the insert into bom_corrections have all
\* been issued; it is the last write and no 'failed' update follows it.
C21_WritesOrdered ==
  mode = "handler" =>
    \A i \in Invocations :
      /\ ProcessingFirstCompletedLast(i)
      /\ After(Issued(i, "update", "bom_checks", "completed"),
               Issued(i, "insert", "validation_issues", ""))
      /\ After(Issued(i, "update", "bom_checks", "completed"),
               Issued(i, "insert", "bom_items", ""))

\* C21 amended: as above, where the insert into validation_issues precedes
\* the update to 'completed' when the invocation found at least one issue,
\* the insert into bom_items when the file has at least one row, and neither
\* insert is issued otherwise.
C21_WritesOrderedWhenIssued ==
  mode = "handler" =>
    \A i \in Invocations :
      /\ ProcessingFirstCompletedLast(i)
      /\ \A k \in Issued(i, "update", "bom_checks", "completed") :
           /\ (Len(local[i].allIssues) > 0) <=>
                (\E j \in Issued(i, "insert", "validation_issues", "") : j < k)
           /\ (Len(local[i].bomItems) > 0) <=>
                (\E j \in Issued(i, "insert", "bom_items", "") : j < k)

\* C21 witness: an invocation on a file without rows has sent its update to
\* 'completed' after the upload and the insert into bom_corrections, without
\* any insert into validation_issues or bom_items, while the other invocation
\* has sent both inserts before its update to 'completed'
C21_Witness ==
  /\ mode = "handler"
  /\ \E i \in Invocations :
       /\ pc[i] = "done"
       /\ Issued(i, "update", "bom_checks", "completed") = { Len(calls[i]) }
       /\ Issued(i, "insert", "validation_issues", "") = {}
       /\ Issued(i, "insert", "bom_items", "") = {}
       /\ Issued(i, "upload", "corrected-files", "") # {}
       /\ \E j \in Invocations \ {i} :
            /\ pc[j] = "done"
            /\ Issued(j, "update", "bom_checks", "completed") = { Len(calls[j]) }
            /\ Issued(j, "insert", "validation_issues", "") # {}
            /\ Issued(j, "insert", "bom_items", "") # {}

\* ------------------------------------------------------------------------
\* The figures of a completed check
\* ------------------------------------------------------------------------

\* the number of issues of the rows' results that satisfy a test
CountIssues(results, Test(_)) ==
  Cardinality(UNION { { << k, j >> : j \in { n \in 1..Len(results[k].issues) :
                                              Test(results[k].issues[n]) } } :
                      k \in 1..Len(results) })

\* the figures stored on check c are those of invocation i
FiguresFrom(c, i) ==
  LET l == local[i]
      check == bom_checks[c]
      AnyIssue(issue) == TRUE
      AutoCorrected(issue) == issue.autoCorrected
      MissingField(issue) == issue.type = "missing_field"
  IN  /\ l.checkId = c
      /\ \E k \in 1..Len(calls[i]) :
           calls[i][k] = Call("update", "bom_checks", c, "completed", TRUE)
      /\ check.total_entries = Len(parseBoMFile(bom_uploads[check.file_path]))
      /\ check.total_entries = Len(l.bomEntries)
      /\ check.total_entries = Len(l.bomItems)
      /\ \A k \in 1..Len(l.bomItems) :
           l.bomItems[k] = BomItem(c, l.bomEntries[k], l.validationResults[k])
      /\ \A k \in 1..Len(l.validationResults) : l.validationResults[k].entry = l.bomEntries[k]
      /\ check.issues_found = CountIssues(l.validationResults, AnyIssue)
      /\ check.issues_found = Len(l.allIssues)
      /\ check.issues_corrected = CountIssues(l.validationResults, AutoCorrected)
      /\ check.issues_corrected <= check.issues_found
      /\ check.issues_found - check.issues_corrected
           = CountIssues(l.validationResults, MissingField)

\* C22: on a completed check total_entries is the number of parsed rows and
\* of bom_items built (one per row, in file order), issues_found the sum over
\* the rows of their issues and the number of validation_issues rows built,
\* issues_corrected the number of those with autoCorrected = true, which is
\* at most issues_found, and issues_found - issues_corrected the number of
\* missing_field issues.
C22_FiguresConsistent ==
  \A c \in CheckIds :
    (mode = "handler" /\ bom_checks[c].status = "completed") =>
      \E i \in Invocations : FiguresFrom(c, i)

\* C22 witness: the check of the two-row file is completed with five issues,
\* three of them corrected and two for missing fields
C22_Witness ==
  /\ mode = "handler"
  /\ bom_checks["c1"].status = "completed"
  /\ bom_checks["c1"].total_entries = 2
  /\ bom_checks["c1"].issues_found = 5
  /\ bom_checks["c1"].issues_corrected = 3
  /\ \E i \in Invocations : FiguresFrom("c1", i)

\* ------------------------------------------------------------------------
\* The bom_items row built for one row of the file
\* ------------------------------------------------------------------------

InitItem ==
  /\ mode = "item"
  /\ \E entry \in Rows, refs \in ReferenceSets :
       arg = [checkId |-> "c1", entry |-> entry, dict |-> buildTerminologyDict(refs)]
  /\ ret = NoRet
  /\ HandlerIdle
  /\ AppIdle
  /\ reference_files = << >>
  /\ bom_uploads = [p \in {} |-> << >>]

\* one iteration of `for (const entry of bomEntries)` up to bomItems.push
CallItem ==
  /\ mode = "item"
  /\ ret = NoRet
  /\ \E result \in { ValidateRow(arg.entry, arg.dict) } :
       ret' = [result |-> result, item |-> BomItem(arg.checkId, arg.entry, result)]
  /\ UNCHANGED << mode, arg, handlerVars, storeVars, appVars >>

SpecItem == InitItem /\ [][CallItem]_vars

\* the severities of the issues found on the row
Severities(issues) == { issues[k].severity : k \in 1..Len(issues) }

\* C23: the status of a bom_items row is 'error' if and only if its row has an
\* issue of severity 'critical', 'warning' if and only if it has no critical
\* issue and one of severity 'high' or 'medium', and 'valid' otherwise; a row
\* whose only issues are spelling issues (severity 'low') has status 'valid'
\* and a non-empty rule_violations list.
C23_ItemStatus ==
  (mode = "item" /\ ret # NoRet) =>
    LET sev == Severities(ret.result.issues)
    IN  /\ ret.item.status = "error" <=> "critical" \in sev
        /\ ret.item.status = "warning" <=>
             ("critical" \notin sev /\ sev \cap {"high", "medium"} # {})
        /\ ret.item.status = "valid" <=> sev \cap {"critical", "high", "medium"} = {}
        /\ ret.item.status \in {"error", "warning", "valid"}
        /\ Len(ret.item.rule_violations) = Len(ret.result.issues)
        /\ \A k \in 1..Len(ret.result.issues) :
             ret.item.rule_violations[k].severity = ret.result.issues[k].severity
        /\ (ret.result.issues # << >>
              /\ \A k \in 1..Len(ret.result.issues) : ret.result.issues[k].type = "spelling")
             => (ret.item.status = "valid" /\ ret.item.rule_violations # << >>)

\* C23 witness: a row with all required fields whose only issues are spelling
\* issues is built with status 'valid' and its violations listed
C23_Witness ==
  /\ mode = "item"
  /\ ret # NoRet
  /\ ret.result.issues # << >>
  /\ \A k \in 1..Len(ret.result.issues) :
       ret.result.issues[k].type = "spelling" /\ ret.result.issues[k].severity = "low"
  /\ ret.item.status = "valid"
  /\ Len(ret.item.rule_violations) > 0
====
